---------------------------- MODULE Spec2Model ----------------------------
(***************************************************************************)
(* Model of the central orchestration service                              *)
(* (src/moniker/central/service.py, class Service).                        *)
(*                                                                         *)
(* Every public operation of Service runs in a worker frame (call[w]).     *)
(* One step of the model is one call of the operation on a collaborator    *)
(* (Storage, Backend, the notifier), together with the local computation   *)
(* that precedes it; PolicyGate's verdicts for a call are an input of the  *)
(* call.  Names are Python strings: sequences of one-character strings.    *)
(***************************************************************************)
EXTENDS Naturals, Sequences, FiniteSets

(***************************************************************************)
(* Bounds of the model.                                                    *)
(***************************************************************************)
\* the rows (of any kind) Storage takes in one behaviour
MaxRows == 3

Tenants == {"A", "B"}

NoId == 0

(***************************************************************************)
(* Python strings and the str / re functions the service uses.             *)
(***************************************************************************)
Dot == "."

N_c == <<"c", ".">>

N_bc == <<"b", ".", "c", ".">>

N_abc == <<"a", ".", "b", ".", "c", ".">>

DomainNames == {N_c, N_bc, N_abc}

R_wc == <<"w", ".", "c", ".">>

R_wbc == <<"w", ".", "b", ".", "c", ".">>

R_wd == <<"w", ".", "d", ".">>

RecordNames == {R_wc, R_wbc, R_wd}

\* The k-th "." of s, counted from 1
DotAt(s, k) ==
    CHOOSE p \in 1..Len(s) :
        /\ s[p] = Dot
        /\ Cardinality({q \in 1..(p - 1) : s[q] = Dot}) = k - 1

\* str.split("."): the labels between the dots, one more than there are dots
Split(s) ==
    LET nd == Cardinality({p \in 1..Len(s) : s[p] = Dot})
        First(j) == IF j = 1 THEN 1 ELSE DotAt(s, j - 1) + 1
        Last(j) == IF j = nd + 1 THEN Len(s) ELSE DotAt(s, j) - 1
    IN  [j \in 1..(nd + 1) |-> SubSeq(s, First(j), Last(j))]

RECURSIVE Join(_)
\* '.'.join(labels)
Join(labels) ==
    IF Len(labels) = 0 THEN << >>
    ELSE IF Len(labels) = 1 THEN labels[1]
    ELSE labels[1] \o <<Dot>> \o Join(Tail(labels))

\* labels[i:] with Python's 0-based i
SliceFrom(labels, i) == SubSeq(labels, i + 1, Len(labels))

\* str.endswith
EndsWith(s, suffix) ==
    /\ Len(suffix) <= Len(s)
    /\ SubSeq(s, Len(s) - Len(suffix) + 1, Len(s)) = suffix

\* bool(re.search(pattern, s)) for a pattern without metacharacters
ReSearch(pattern, s) ==
    \E k \in 0..Len(s) :
        /\ k + Len(pattern) <= Len(s)
        /\ SubSeq(s, k + 1, k + Len(pattern)) = pattern


(***************************************************************************)
(* Python truthiness of the values the service tests with "if".            *)
(***************************************************************************)
PyFalse == [is |-> "False"]

PyStr(s) == [is |-> "str", str |-> s]

PyTrue == [is |-> "True"]

PyNone == [is |-> "None"]

PyDict(d) == [is |-> "dict", dict |-> d]

\* bool(v): False, None, '' and {} are falsy, every other value is truthy
Truthy(v) ==
    CASE v.is = "False" -> FALSE
      [] v.is = "None" -> FALSE
      [] v.is = "str" -> Len(v.str) > 0
      [] v.is = "dict" -> DOMAIN v.dict # {}
      [] OTHER -> TRUE

(***************************************************************************)
(* State.                                                                  *)
(***************************************************************************)
VARIABLES
    workers,      \* the worker threads of the transport that run operations
    blacklists,   \* cfg.CONF['service:central'].domain_name_blacklist
    domains,      \* Storage: the Domain rows
    records,      \* Storage: the Record rows
    servers,      \* Storage: the Server rows (their ids)
    tsigkeys,     \* Storage: the TsigKey rows
    nextId,       \* Storage: the next id of each kind of row
    call,         \* per worker: the frame of the operation it runs
    handlers,     \* self.handlers: the loaded notification handlers, in order
    disp,         \* the frame of _process_notification
    svc,          \* the service's life: where start() and stop() have got to
    bus           \* the transport: the queues declared and what lies in them

confVars == <<workers, blacklists>>

storageVars == <<domains, records, servers, tsigkeys, nextId>>

notifyVars == <<handlers, disp>>

lifeVars == <<svc, bus>>

vars == <<workers, blacklists, domains, records, servers, tsigkeys, nextId,
          call, handlers, disp, svc, bus>>

AllWorkers == {1, 2}

\* the request contexts (PolicyGate's verdicts on one are in granted)
Contexts == [tenant_id : Tenants, is_admin : BOOLEAN]

NoDomain == [id |-> NoId]

NoRecord == [id |-> NoId]

NoTsigKey == [id |-> NoId]

\* what a call of a collaborator came to: the value returned, or the
\* message of the exception raised
NoOutcome == [raised |-> FALSE, value |-> PyNone]

Returned(v) == [raised |-> FALSE, value |-> v]

Raised(message) == [raised |-> TRUE, message |-> message]

NoRet == [is |-> "nothing"]

NoValues == [nothing |-> TRUE]

\* the frame of a method that does not read its context
NoContext == [nobody |-> TRUE]

\* the frame of a worker that runs no operation
IdleCall ==
    [op |-> "idle", pc |-> "idle", granted |-> {},
     domain_id |-> NoId, record_id |-> NoId, tsigkey_id |-> NoId,
     server_id |-> NoId, values |-> NoValues, domain |-> NoDomain,
     record |-> NoRecord, tsigkey |-> NoTsigKey, i |-> 0,
     backend_ping |-> NoOutcome, storage_ping |-> NoOutcome,
     backend_status |-> PyNone, storage_status |-> PyNone,
     context |-> NoContext, todo |-> << >>, results |-> << >>,
     effects |-> << >>, result |-> "none", ret |-> NoRet]

\* raise exc: the operation ends and exc propagates to the caller
Raise(f, exc) == [f EXCEPT !.pc = "done", !.result = exc]

\* return value
Return(f, value) == [f EXCEPT !.pc = "done", !.result = "ok", !.ret = value]

\* the frame after a call of a collaborator has taken effect
Effect(f, what) == [f EXCEPT !.effects = Append(@, what)]

Idle(w) == w \in workers /\ call[w].op = "idle"

At(w, op, pc) == w \in workers /\ call[w].op = op /\ call[w].pc = pc

\* policy.check(rule, context, target): PolicyGate's verdicts for the context
\* and targets of a call are an input of the call
Granted(f, rule) == rule \in f.granted

\* PolicyGate's verdicts on the rules of one call: it grants them all, or all
\* but one
Verdicts(rules) == {rules} \cup {rules \ {r} : r \in rules}

(***************************************************************************)
(* Storage (moniker.storage): exact-match lookups, ids assigned on create, *)
(* a uniqueness constraint on the Domain name.                             *)
(***************************************************************************)
FindDomain(name) == {d \in domains : d.name = name}

GetDomain(id) == {d \in domains : d.id = id}

GetRecord(id) == {r \in records : r.id = id}

GetTsigKey(id) == {k \in tsigkeys : k.id = id}

\* a row with the columns named in values overwritten (the model keeps the
\* columns the service reads)
Updated(row, values) ==
    [c \in DOMAIN row |-> IF c \in DOMAIN values THEN values[c] ELSE row[c]]

TheOne(S) == CHOOSE x \in S : TRUE

\* the rows created so far, and whether Storage takes one more
RowsCreated ==
    (nextId.domain - 1) + (nextId.record - 1) + (nextId.server - 2)
        + (nextId.tsigkey - 1)

HasRoom == RowsCreated < MaxRows

\* the ids a caller may name: those of the rows, and one that names no row
DomainIds == {d.id : d \in domains} \cup {nextId.domain}

RecordIds == {r.id : r \in records} \cup {nextId.record}

ServerIds == servers \cup {nextId.server}

TsigKeyIds == {k.id : k \in tsigkeys} \cup {nextId.tsigkey}


(***************************************************************************)
(* Configuration and initial state: no operation runs.                     *)
(***************************************************************************)
P_a == <<"a">>

P_empty == << >>

\* the configured lists of blacklist patterns the model is checked for
BlacklistConfigs == {<<P_a>>, <<P_empty, P_a>>}

\* Storage of a deployment: its name server is registered, nothing else
InitStorage ==
    /\ domains = {}
    /\ records = {}
    /\ servers = {1}
    /\ tsigkeys = {}
    /\ nextId = [domain |-> 1, record |-> 1, server |-> 2, tsigkey |-> 1]

InitCalls == call = [w \in AllWorkers |-> IdleCall]

(***************************************************************************)
(* Steps every create and update operation ends with.                      *)
(***************************************************************************)
\* the Backend call with its exception swallowed
BackendCall_swallowed(w, op, method) ==
    /\ At(w, op, "backend")
    /\ \/ call' = [call EXCEPT ![w] =
                      [Effect(@, "backend." \o method) EXCEPT !.pc = "notify"]]
       \/ call' = [call EXCEPT ![w].pc = "notify"]

\* self.backend.<method>(...): the driver does it, or raises
BackendCall(w, op, method) ==
    /\ At(w, op, "backend")
    /\ \/ call' = [call EXCEPT ![w] =
                      [Effect(@, "backend." \o method) EXCEPT !.pc = "notify"]]
       \/ call' = [call EXCEPT ![w] = Raise(@, "BackendError")]

\* utils.notify(context, 'api', event, row); return row
NotifyAndReturn(w, op, event, row) ==
    /\ At(w, op, "notify")
    /\ call' = [call EXCEPT ![w] = Return(Effect(@, "notify." \o event), row)]

\* the RPC layer hands the result (or the error) to the caller
rpc_reply(w) ==
    /\ w \in workers
    /\ call[w].pc = "done"
    /\ call' = [call EXCEPT ![w] = IdleCall]
    /\ UNCHANGED <<confVars, storageVars, notifyVars, lifeVars>>

(***************************************************************************)
(* Server methods.                                                         *)
(***************************************************************************)
create_server_call(w) ==
    /\ Idle(w)
    /\ \E granted \in Verdicts({"create_server"}) :
        LET f == [IdleCall EXCEPT !.op = "create_server",
                                  !.granted = granted]
        IN  IF ~Granted(f, "create_server")
            THEN /\ call' = [call EXCEPT ![w] = Raise(f, "Forbidden")]
                 /\ UNCHANGED storageVars
            ELSE /\ HasRoom
                 /\ servers' = servers \cup {nextId.server}
                 /\ nextId' = [nextId EXCEPT !.server = @ + 1]
                 /\ call' = [call EXCEPT ![w] =
                        [Effect(f, "storage.create_server") EXCEPT
                            !.pc = "notify"]]
                 /\ UNCHANGED <<domains, records, tsigkeys>>
    /\ UNCHANGED <<confVars, notifyVars, lifeVars>>

create_server_notify(w) ==
    /\ NotifyAndReturn(w, "create_server", "server.create", NoRet)
    /\ UNCHANGED <<confVars, storageVars, notifyVars, lifeVars>>

create_server(w) == create_server_call(w) \/ create_server_notify(w)

delete_server_call(w) ==
    /\ Idle(w)
    /\ \E server_id \in ServerIds,
          granted \in Verdicts({"delete_server"}) :
        LET f == [IdleCall EXCEPT !.op = "delete_server",
                                  !.granted = granted]
        IN  call' = [call EXCEPT ![w] =
                IF ~Granted(f, "delete_server") THEN Raise(f, "Forbidden")
                ELSE IF server_id \notin servers
                     THEN Raise(f, "ServerNotFound")
                ELSE [Effect(f, "notify.server.delete") EXCEPT
                         !.pc = "storage", !.server_id = server_id]]
    /\ UNCHANGED <<confVars, storageVars, notifyVars, lifeVars>>

delete_server_storage(w) ==
    /\ At(w, "delete_server", "storage")
    /\ IF call[w].server_id \in servers
       THEN /\ servers' = servers \ {call[w].server_id}
            /\ call' = [call EXCEPT ![w] =
                            Return(Effect(@, "storage.delete_server"), NoRet)]
       ELSE /\ call' = [call EXCEPT ![w] = Raise(@, "ServerNotFound")]
            /\ UNCHANGED servers
    /\ UNCHANGED <<domains, records, tsigkeys, nextId, confVars, notifyVars, lifeVars>>

delete_server(w) == delete_server_call(w) \/ delete_server_storage(w)

(***************************************************************************)
(* TSIG key methods.                                                       *)
(***************************************************************************)
Secrets == {"s1", "s2"}

create_tsigkey_call(w) ==
    /\ Idle(w)
    /\ \E secret \in Secrets, granted \in Verdicts({"create_tsigkey"}) :
        LET f == [IdleCall EXCEPT !.op = "create_tsigkey",
                     !.granted = granted, !.values = [secret |-> secret]]
            tsigkey == [id |-> nextId.tsigkey, secret |-> secret]
        IN  IF ~Granted(f, "create_tsigkey")
            THEN /\ call' = [call EXCEPT ![w] = Raise(f, "Forbidden")]
                 /\ UNCHANGED storageVars
            ELSE /\ HasRoom
                 /\ tsigkeys' = tsigkeys \cup {tsigkey}
                 /\ nextId' = [nextId EXCEPT !.tsigkey = @ + 1]
                 /\ call' = [call EXCEPT ![w] =
                        [Effect(f, "storage.create_tsigkey") EXCEPT
                            !.pc = "backend", !.tsigkey = tsigkey]]
                 /\ UNCHANGED <<domains, records, servers>>
    /\ UNCHANGED <<confVars, notifyVars, lifeVars>>

create_tsigkey_backend(w) ==
    /\ BackendCall(w, "create_tsigkey", "create_tsigkey")
    /\ UNCHANGED <<confVars, storageVars, notifyVars, lifeVars>>

create_tsigkey_notify(w) ==
    /\ NotifyAndReturn(w, "create_tsigkey", "tsigkey.create", call[w].tsigkey)
    /\ UNCHANGED <<confVars, storageVars, notifyVars, lifeVars>>

create_tsigkey(w) ==
    \/ create_tsigkey_call(w)
    \/ create_tsigkey_backend(w)
    \/ create_tsigkey_notify(w)

update_tsigkey_call(w) ==
    /\ Idle(w)
    /\ \E tsigkey_id \in TsigKeyIds, secret \in Secrets,
          granted \in Verdicts({"update_tsigkey"}) :
        LET f == [IdleCall EXCEPT !.op = "update_tsigkey",
                     !.granted = granted, !.tsigkey_id = tsigkey_id,
                     !.values = [secret |-> secret]]
            found == GetTsigKey(tsigkey_id)
            tsigkey == Updated(TheOne(found), f.values)
        IN  IF ~Granted(f, "update_tsigkey")
            THEN /\ call' = [call EXCEPT ![w] = Raise(f, "Forbidden")]
                 /\ UNCHANGED tsigkeys
            ELSE IF found = {}
            THEN /\ call' = [call EXCEPT ![w] = Raise(f, "TsigKeyNotFound")]
                 /\ UNCHANGED tsigkeys
            ELSE /\ tsigkeys' = (tsigkeys \ found) \cup {tsigkey}
                 /\ call' = [call EXCEPT ![w] =
                        [Effect(f, "storage.update_tsigkey") EXCEPT
                            !.pc = "backend", !.tsigkey = tsigkey]]
    /\ UNCHANGED <<domains, records, servers, nextId, confVars, notifyVars, lifeVars>>

update_tsigkey_backend(w) ==
    /\ BackendCall(w, "update_tsigkey", "update_tsigkey")
    /\ UNCHANGED <<confVars, storageVars, notifyVars, lifeVars>>

update_tsigkey_notify(w) ==
    /\ NotifyAndReturn(w, "update_tsigkey", "tsigkey.update", call[w].tsigkey)
    /\ UNCHANGED <<confVars, storageVars, notifyVars, lifeVars>>

update_tsigkey(w) ==
    \/ update_tsigkey_call(w)
    \/ update_tsigkey_backend(w)
    \/ update_tsigkey_notify(w)

\* delete_tsigkey, lines 250-252: policy first, then get_tsigkey
delete_tsigkey_call(w) ==
    /\ Idle(w)
    /\ \E tsigkey_id \in TsigKeyIds, granted \in Verdicts({"delete_tsigkey"}) :
        LET f == [IdleCall EXCEPT !.op = "delete_tsigkey",
                     !.granted = granted, !.tsigkey_id = tsigkey_id]
            found == GetTsigKey(tsigkey_id)
        IN  call' = [call EXCEPT ![w] =
                IF ~Granted(f, "delete_tsigkey") THEN Raise(f, "Forbidden")
                ELSE IF found = {} THEN Raise(f, "TsigKeyNotFound")
                ELSE [f EXCEPT !.pc = "backend", !.tsigkey = TheOne(found)]]
    /\ UNCHANGED <<confVars, storageVars, notifyVars, lifeVars>>

delete_tsigkey_backend(w) ==
    /\ BackendCall(w, "delete_tsigkey", "delete_tsigkey")
    /\ UNCHANGED <<confVars, storageVars, notifyVars, lifeVars>>

delete_tsigkey_notify(w) ==
    /\ At(w, "delete_tsigkey", "notify")
    /\ call' = [call EXCEPT ![w] =
                    [Effect(@, "notify.tsigkey.delete") EXCEPT
                        !.pc = "storage"]]
    /\ UNCHANGED <<confVars, storageVars, notifyVars, lifeVars>>

delete_tsigkey_storage(w) ==
    /\ At(w, "delete_tsigkey", "storage")
    /\ LET found == GetTsigKey(call[w].tsigkey_id)
       IN  IF found = {}
           THEN /\ call' = [call EXCEPT ![w] = Raise(@, "TsigKeyNotFound")]
                /\ UNCHANGED tsigkeys
           ELSE /\ tsigkeys' = tsigkeys \ found
                /\ call' = [call EXCEPT ![w] =
                        Return(Effect(@, "storage.delete_tsigkey"),
                               TheOne(found))]
    /\ UNCHANGED <<domains, records, servers, nextId, confVars, notifyVars, lifeVars>>

delete_tsigkey(w) ==
    \/ delete_tsigkey_call(w)
    \/ delete_tsigkey_backend(w)
    \/ delete_tsigkey_notify(w)
    \/ delete_tsigkey_storage(w)


(***************************************************************************)
(* Domain methods.                                                         *)
(***************************************************************************)
\* _is_blacklisted_domain_name: the first pattern that matches, or False
IsBlacklistedDomainName(domain_name) ==
    LET hits == {k \in 1..Len(blacklists) :
                    ReSearch(blacklists[k], domain_name)}
        first == CHOOSE k \in hits : \A j \in hits : k <= j
    IN  IF hits = {} THEN PyFalse ELSE PyStr(blacklists[first])

\* _is_subdomain, the loop condition: i < len(labels)
SubdomainLoop(domain_name, i) == i < Len(Split(domain_name))

\* _is_subdomain, the name looked up at offset i: '.'.join(labels[i:])
SubdomainCandidate(domain_name, i) == Join(SliceFrom(Split(domain_name), i))

\* _is_subdomain, the offset the search starts at
SubdomainStart == 1

\* create_domain going on after PolicyGate has denied create_domain
CreateDomainChecked_denial_ignored(f) ==
    IF /\ Truthy(IsBlacklistedDomainName(f.values["name"]))
       /\ ~Granted(f, "use_blacklisted_domain")
    THEN Raise(f, "Forbidden")
    ELSE IF SubdomainLoop(f.values["name"], SubdomainStart)
         THEN [f EXCEPT !.pc = "is_subdomain", !.i = SubdomainStart]
    ELSE [f EXCEPT !.pc = "get_servers"]

\* create_domain, lines 260-276: policy and blacklist, then the frame enters
\* the ancestor search
CreateDomainChecked(f) ==
    IF ~Granted(f, "create_domain") THEN Raise(f, "Forbidden")
    ELSE IF /\ Truthy(IsBlacklistedDomainName(f.values["name"]))
            /\ ~Granted(f, "use_blacklisted_domain")
         THEN Raise(f, "Forbidden")
    ELSE IF SubdomainLoop(f.values["name"], SubdomainStart)
         THEN [f EXCEPT !.pc = "is_subdomain", !.i = SubdomainStart]
    ELSE [f EXCEPT !.pc = "get_servers"]

create_domain_call(w) ==
    /\ Idle(w)
    /\ \E ctx \in Contexts, name \in DomainNames,
          granted \in Verdicts({"create_domain", "use_blacklisted_domain"}) :
        call' = [call EXCEPT ![w] = CreateDomainChecked(
                    [IdleCall EXCEPT !.op = "create_domain",
                        !.granted = granted,
                        !.values = [name |-> name,
                                    tenant_id |-> ctx.tenant_id]])]
    /\ UNCHANGED <<confVars, storageVars, notifyVars, lifeVars>>

\* create_domain without the comparison of the tenants
SubdomainDecision_any_tenant(f, parent_domain) ==
    [f EXCEPT !.pc = "get_servers",
              !.values = [name |-> f.values["name"],
                          tenant_id |-> f.values["tenant_id"],
                          parent_domain_id |-> parent_domain.id]]

\* create_domain, lines 278-284: what the ancestor found decides
SubdomainDecision(f, parent_domain) ==
    IF parent_domain.tenant_id = f.values["tenant_id"]
    THEN [f EXCEPT !.pc = "get_servers",
                   !.values = [name |-> f.values["name"],
                               tenant_id |-> f.values["tenant_id"],
                               parent_domain_id |-> parent_domain.id]]
    ELSE Raise(f, "Forbidden")

\* one turn of the loop of _is_subdomain: storage_conn.find_domain
IsSubdomainStep(f, found) ==
    IF found # {} THEN SubdomainDecision(f, TheOne(found))
    ELSE IF SubdomainLoop(f.values["name"], f.i + 1)
         THEN [f EXCEPT !.i = f.i + 1]
    ELSE [f EXCEPT !.pc = "get_servers"]

create_domain_is_subdomain(w) ==
    /\ At(w, "create_domain", "is_subdomain")
    /\ call' = [call EXCEPT ![w] = IsSubdomainStep(@,
                    FindDomain(SubdomainCandidate(@.values["name"], @.i)))]
    /\ UNCHANGED <<confVars, storageVars, notifyVars, lifeVars>>

\* the server count tested for less than zero
NoServers_never(found) == Cardinality(found) < 0

\* lines 289-294: len(servers) == 0
NoServers(found) == Cardinality(found) = 0

create_domain_get_servers(w) ==
    /\ At(w, "create_domain", "get_servers")
    /\ call' = [call EXCEPT ![w] =
                    IF NoServers(servers) THEN Raise(@, "NoServersConfigured")
                    ELSE [@ EXCEPT !.pc = "storage"]]
    /\ UNCHANGED <<confVars, storageVars, notifyVars, lifeVars>>

\* the row Storage makes of the values of create_domain
NewDomain(id, values) ==
    [id |-> id, name |-> values["name"], tenant_id |-> values["tenant_id"],
     parent_domain_id |-> IF "parent_domain_id" \in DOMAIN values
                          THEN values["parent_domain_id"] ELSE NoId]

\* create_domain going on to the Backend with the stored Domain when Storage
\* rejects the insert
create_domain_storage_conflict_ignored(w) ==
    /\ At(w, "create_domain", "storage")
    /\ IF FindDomain(call[w].values["name"]) # {}
       THEN /\ call' = [call EXCEPT ![w] =
                    [@ EXCEPT !.pc = "backend",
                        !.domain = TheOne(FindDomain(call[w].values["name"]))]]
            /\ UNCHANGED <<domains, nextId>>
       ELSE /\ HasRoom
            /\ LET domain == NewDomain(nextId.domain, call[w].values)
               IN  /\ domains' = domains \cup {domain}
                   /\ call' = [call EXCEPT ![w] =
                        [Effect(@, "storage.create_domain") EXCEPT
                            !.pc = "backend", !.domain = domain]]
            /\ nextId' = [nextId EXCEPT !.domain = @ + 1]
    /\ UNCHANGED <<records, servers, tsigkeys, confVars, notifyVars, lifeVars>>

create_domain_storage(w) ==
    /\ At(w, "create_domain", "storage")
    /\ IF FindDomain(call[w].values["name"]) # {}
       THEN /\ call' = [call EXCEPT ![w] = Raise(@, "DuplicateDomain")]
            /\ UNCHANGED <<domains, nextId>>
       ELSE /\ HasRoom
            /\ LET domain == NewDomain(nextId.domain, call[w].values)
               IN  /\ domains' = domains \cup {domain}
                   /\ call' = [call EXCEPT ![w] =
                        [Effect(@, "storage.create_domain") EXCEPT
                            !.pc = "backend", !.domain = domain]]
            /\ nextId' = [nextId EXCEPT !.domain = @ + 1]
    /\ UNCHANGED <<records, servers, tsigkeys, confVars, notifyVars, lifeVars>>

\* create_domain taking the Domain back out of Storage when the Backend
\* raises
create_domain_backend_rollback(w) ==
    /\ At(w, "create_domain", "backend")
    /\ \/ /\ call' = [call EXCEPT ![w] =
                [Effect(@, "backend.create_domain") EXCEPT !.pc = "notify"]]
          /\ UNCHANGED domains
       \/ /\ call' = [call EXCEPT ![w] = Raise(@, "BackendError")]
          /\ domains' = domains \ {call[w].domain}
    /\ UNCHANGED <<records, servers, tsigkeys, nextId, confVars, notifyVars, lifeVars>>

create_domain_backend(w) ==
    /\ BackendCall(w, "create_domain", "create_domain")
    /\ UNCHANGED <<confVars, storageVars, notifyVars, lifeVars>>

create_domain_notify(w) ==
    /\ NotifyAndReturn(w, "create_domain", "domain.create", call[w].domain)
    /\ UNCHANGED <<confVars, storageVars, notifyVars, lifeVars>>

create_domain(w) ==
    \/ create_domain_call(w)
    \/ create_domain_is_subdomain(w)
    \/ create_domain_get_servers(w)
    \/ create_domain_storage(w)
    \/ create_domain_backend(w)
    \/ create_domain_notify(w)

\* the values update_domain is called with: a name, a tenant_id, both, or
\* another column (the model keeps no email column: such an update changes
\* nothing the model reads)
DomainUpdates ==
    {[name |-> n] : n \in DomainNames}
        \cup {[tenant_id |-> t] : t \in Tenants}
        \cup {[name |-> n, tenant_id |-> t] : n \in {N_c, N_bc}, t \in Tenants}
        \cup {[email |-> "e"]}

\* update_domain without the test of the name
UpdateDomainChecked_rename(f, found) ==
    IF found = {} THEN Raise(f, "DomainNotFound")
    ELSE IF ~Granted(f, "update_domain") THEN Raise(f, "Forbidden")
    ELSE IF /\ "tenant_id" \in DOMAIN f.values
            /\ ~(Granted(f, "delete_domain") /\ Granted(f, "create_domain"))
         THEN Raise(f, "Forbidden")
    ELSE [f EXCEPT !.pc = "storage", !.domain = TheOne(found)]

\* update_domain, lines 328-349, on the row get_domain found
UpdateDomainChecked(f, found) ==
    IF found = {} THEN Raise(f, "DomainNotFound")
    ELSE IF ~Granted(f, "update_domain") THEN Raise(f, "Forbidden")
    ELSE IF /\ "tenant_id" \in DOMAIN f.values
            /\ ~(Granted(f, "delete_domain") /\ Granted(f, "create_domain"))
         THEN Raise(f, "Forbidden")
    ELSE IF /\ "name" \in DOMAIN f.values
            /\ f.values["name"] # TheOne(found).name
         THEN Raise(f, "BadRequest")
    ELSE [f EXCEPT !.pc = "storage", !.domain = TheOne(found)]

\* the rules update_domain consults: those of a transfer when values names
\* a tenant_id
UpdateDomainRules(values) ==
    IF "tenant_id" \in DOMAIN values
    THEN {"update_domain", "delete_domain", "create_domain"}
    ELSE {"update_domain"}

update_domain_call(w) ==
    /\ Idle(w)
    /\ \E domain_id \in DomainIds, values \in DomainUpdates :
       \E granted \in Verdicts(UpdateDomainRules(values)) :
        call' = [call EXCEPT ![w] = UpdateDomainChecked(
                    [IdleCall EXCEPT !.op = "update_domain",
                        !.granted = granted, !.domain_id = domain_id,
                        !.values = values],
                    GetDomain(domain_id))]
    /\ UNCHANGED <<confVars, storageVars, notifyVars, lifeVars>>

update_domain_storage(w) ==
    /\ At(w, "update_domain", "storage")
    /\ LET found == GetDomain(call[w].domain_id)
           domain == Updated(TheOne(found), call[w].values)
       IN  IF found = {}
           THEN /\ call' = [call EXCEPT ![w] = Raise(@, "DomainNotFound")]
                /\ UNCHANGED domains
           ELSE /\ domains' = (domains \ found) \cup {domain}
                /\ call' = [call EXCEPT ![w] =
                        [Effect(@, "storage.update_domain") EXCEPT
                            !.pc = "backend", !.domain = domain]]
    /\ UNCHANGED <<records, servers, tsigkeys, nextId, confVars, notifyVars, lifeVars>>

update_domain_backend(w) ==
    /\ BackendCall(w, "update_domain", "update_domain")
    /\ UNCHANGED <<confVars, storageVars, notifyVars, lifeVars>>

update_domain_notify(w) ==
    /\ NotifyAndReturn(w, "update_domain", "domain.update", call[w].domain)
    /\ UNCHANGED <<confVars, storageVars, notifyVars, lifeVars>>

update_domain(w) ==
    \/ update_domain_call(w)
    \/ update_domain_storage(w)
    \/ update_domain_backend(w)
    \/ update_domain_notify(w)

\* the criterion get_domains is called with: None, or exact-match filters
NoCriterion == [is |-> "None"]

Criteria ==
    {NoCriterion} \cup {PyDict([tenant_id |-> t]) : t \in Tenants}
        \cup {PyDict([name |-> N_c])}

\* storage_conn.get_domains(context, criterion): the Domains that match
\* every filter of the criterion
StorageGetDomains(criterion) ==
    {d \in domains : \A c \in DOMAIN criterion : d[c] = criterion[c]}

\* get_domains with the criterion of the caller passed through
GetDomainsCriterion_passed_through(context, criterion) ==
    IF criterion = NoCriterion THEN << >> ELSE criterion.dict

\* get_domains, lines 307-311: the criterion Storage is queried with
GetDomainsCriterion(context, criterion) ==
    LET given == IF criterion = NoCriterion THEN << >> ELSE criterion.dict
    IN  IF ~context.is_admin
        THEN [c \in DOMAIN given \cup {"tenant_id"} |->
                IF c = "tenant_id" THEN context.tenant_id ELSE given[c]]
        ELSE given

get_domains(w) ==
    /\ Idle(w)
    /\ \E context \in Contexts, criterion \in Criteria,
          granted \in Verdicts({"get_domains"}) :
        LET f == [IdleCall EXCEPT !.op = "get_domains",
                     !.granted = granted, !.context = context,
                     !.values = criterion]
        IN  call' = [call EXCEPT ![w] =
                IF ~Granted(f, "get_domains") THEN Raise(f, "Forbidden")
                ELSE Return(f, [rows |-> StorageGetDomains(
                        GetDomainsCriterion(context, criterion))])]
    /\ UNCHANGED <<confVars, storageVars, notifyVars, lifeVars>>

\* delete_domain going from the policy check to the notification
delete_domain_call_no_backend(w) ==
    /\ Idle(w)
    /\ \E domain_id \in DomainIds, granted \in Verdicts({"delete_domain"}) :
        LET f == [IdleCall EXCEPT !.op = "delete_domain",
                     !.granted = granted, !.domain_id = domain_id]
            found == GetDomain(domain_id)
        IN  call' = [call EXCEPT ![w] =
                IF found = {} THEN Raise(f, "DomainNotFound")
                ELSE IF ~Granted(f, "delete_domain") THEN Raise(f, "Forbidden")
                ELSE [f EXCEPT !.pc = "notify", !.domain = TheOne(found)]]
    /\ UNCHANGED <<confVars, storageVars, notifyVars, lifeVars>>

\* delete_domain, lines 359-367: get_domain first, then policy
delete_domain_call(w) ==
    /\ Idle(w)
    /\ \E domain_id \in DomainIds, granted \in Verdicts({"delete_domain"}) :
        LET f == [IdleCall EXCEPT !.op = "delete_domain",
                     !.granted = granted, !.domain_id = domain_id]
            found == GetDomain(domain_id)
        IN  call' = [call EXCEPT ![w] =
                IF found = {} THEN Raise(f, "DomainNotFound")
                ELSE IF ~Granted(f, "delete_domain") THEN Raise(f, "Forbidden")
                ELSE [f EXCEPT !.pc = "backend", !.domain = TheOne(found)]]
    /\ UNCHANGED <<confVars, storageVars, notifyVars, lifeVars>>

delete_domain_backend(w) ==
    /\ BackendCall(w, "delete_domain", "delete_domain")
    /\ UNCHANGED <<confVars, storageVars, notifyVars, lifeVars>>

delete_domain_notify(w) ==
    /\ At(w, "delete_domain", "notify")
    /\ call' = [call EXCEPT ![w] =
                    [Effect(@, "notify.domain.delete") EXCEPT
                        !.pc = "storage"]]
    /\ UNCHANGED <<confVars, storageVars, notifyVars, lifeVars>>

\* line 372: Storage removes the Domain row
delete_domain_storage(w) ==
    /\ At(w, "delete_domain", "storage")
    /\ LET found == GetDomain(call[w].domain_id)
       IN  IF found = {}
           THEN /\ call' = [call EXCEPT ![w] = Raise(@, "DomainNotFound")]
                /\ UNCHANGED domains
           ELSE /\ domains' = domains \ found
                /\ call' = [call EXCEPT ![w] =
                        Return(Effect(@, "storage.delete_domain"),
                               TheOne(found))]
    /\ UNCHANGED <<records, servers, tsigkeys, nextId, confVars, notifyVars, lifeVars>>

delete_domain(w) ==
    \/ delete_domain_call(w)
    \/ delete_domain_backend(w)
    \/ delete_domain_notify(w)
    \/ delete_domain_storage(w)


(***************************************************************************)
(* Record methods.                                                         *)
(***************************************************************************)
\* the record name not tested
InZone_unchecked(record_name, domain_name) == TRUE

\* str.endswith of line 387 and line 447
InZone(record_name, domain_name) == EndsWith(record_name, domain_name)

\* create_record, lines 376-389, on the row get_domain found
CreateRecordChecked(f, found) ==
    IF found = {} THEN Raise(f, "DomainNotFound")
    ELSE IF ~Granted(f, "create_record") THEN Raise(f, "Forbidden")
    ELSE IF ~InZone(f.values["name"], TheOne(found).name)
         THEN Raise(f, "BadRequest")
    ELSE [f EXCEPT !.pc = "storage", !.domain = TheOne(found)]

create_record_call(w) ==
    /\ Idle(w)
    /\ \E domain_id \in DomainIds, name \in RecordNames,
          granted \in Verdicts({"create_record"}) :
        call' = [call EXCEPT ![w] = CreateRecordChecked(
                    [IdleCall EXCEPT !.op = "create_record",
                        !.granted = granted, !.domain_id = domain_id,
                        !.values = [name |-> name, data |-> "d"]],
                    GetDomain(domain_id))]
    /\ UNCHANGED <<confVars, storageVars, notifyVars, lifeVars>>

\* the row Storage makes of the values of create_record
NewRecord(id, domain_id, values) ==
    [id |-> id, domain_id |-> domain_id, name |-> values["name"]]

create_record_storage(w) ==
    /\ At(w, "create_record", "storage")
    /\ HasRoom
    /\ LET record == NewRecord(nextId.record, call[w].domain_id,
                               call[w].values)
       IN  /\ records' = records \cup {record}
           /\ call' = [call EXCEPT ![w] =
                    [Effect(@, "storage.create_record") EXCEPT
                        !.pc = "backend", !.record = record]]
    /\ nextId' = [nextId EXCEPT !.record = @ + 1]
    /\ UNCHANGED <<domains, servers, tsigkeys, confVars, notifyVars, lifeVars>>

create_record_backend(w) ==
    /\ BackendCall(w, "create_record", "create_record")
    /\ UNCHANGED <<confVars, storageVars, notifyVars, lifeVars>>

create_record_notify(w) ==
    /\ NotifyAndReturn(w, "create_record", "record.create", call[w].record)
    /\ UNCHANGED <<confVars, storageVars, notifyVars, lifeVars>>

create_record(w) ==
    \/ create_record_call(w)
    \/ create_record_storage(w)
    \/ create_record_backend(w)
    \/ create_record_notify(w)

\* get_record, update_record, delete_record: domain = get_domain(domain_id)
RecordCall(w, op, rules, valuesSet) ==
    /\ Idle(w)
    /\ \E domain_id \in DomainIds, record_id \in RecordIds,
          values \in valuesSet, granted \in Verdicts(rules) :
        LET f == [IdleCall EXCEPT !.op = op,
                     !.granted = granted, !.domain_id = domain_id,
                     !.record_id = record_id, !.values = values]
            found == GetDomain(domain_id)
        IN  call' = [call EXCEPT ![w] =
                IF found = {} THEN Raise(f, "DomainNotFound")
                ELSE [f EXCEPT !.pc = "get_record", !.domain = TheOne(found)]]
    /\ UNCHANGED <<confVars, storageVars, notifyVars, lifeVars>>

\* the record taken for the domain's whatever its domain_id
RecordOfDomain_any(domain, record) == TRUE

\* "Ensure the domain_id matches the record's domain_id"
RecordOfDomain(domain, record) == domain.id = record.domain_id

\* lines 413-426, 432-445, 460-473: record = get_record(record_id), the
\* domain_id check, the policy check
RecordFetched(f, rule, found) ==
    IF found = {} THEN Raise(f, "RecordNotFound")
    ELSE IF ~RecordOfDomain(f.domain, TheOne(found))
         THEN Raise(f, "RecordNotFound")
    ELSE IF ~Granted(f, rule) THEN Raise(f, "Forbidden")
    ELSE [f EXCEPT !.pc = "checked", !.record = TheOne(found)]

get_record_call(w) == RecordCall(w, "get_record", {"get_record"}, {NoValues})

get_record_fetch(w) ==
    /\ At(w, "get_record", "get_record")
    /\ LET f == RecordFetched(call[w], "get_record",
                              GetRecord(call[w].record_id))
       IN  call' = [call EXCEPT ![w] =
                IF f.pc = "checked" THEN Return(f, f.record) ELSE f]
    /\ UNCHANGED <<confVars, storageVars, notifyVars, lifeVars>>

get_record(w) == get_record_call(w) \/ get_record_fetch(w)

\* the values update_record is called with: a name, or another column (the
\* model keeps no data column)
RecordUpdates == {[name |-> n] : n \in RecordNames} \cup {[data |-> "d"]}

update_record_call(w) ==
    RecordCall(w, "update_record", {"update_record"}, RecordUpdates)

\* update_record, lines 447-449
UpdateRecordChecked(f) ==
    IF f.pc # "checked" THEN f
    ELSE IF /\ "name" \in DOMAIN f.values
            /\ ~InZone(f.values["name"], f.domain.name)
         THEN Raise(f, "BadRequest")
    ELSE [f EXCEPT !.pc = "storage"]

update_record_fetch(w) ==
    /\ At(w, "update_record", "get_record")
    /\ call' = [call EXCEPT ![w] = UpdateRecordChecked(
                    RecordFetched(@, "update_record", GetRecord(@.record_id)))]
    /\ UNCHANGED <<confVars, storageVars, notifyVars, lifeVars>>

update_record_storage(w) ==
    /\ At(w, "update_record", "storage")
    /\ LET found == GetRecord(call[w].record_id)
           record == Updated(TheOne(found), call[w].values)
       IN  IF found = {}
           THEN /\ call' = [call EXCEPT ![w] = Raise(@, "RecordNotFound")]
                /\ UNCHANGED records
           ELSE /\ records' = (records \ found) \cup {record}
                /\ call' = [call EXCEPT ![w] =
                        [Effect(@, "storage.update_record") EXCEPT
                            !.pc = "backend", !.record = record]]
    /\ UNCHANGED <<domains, servers, tsigkeys, nextId, confVars, notifyVars, lifeVars>>

update_record_backend(w) ==
    /\ BackendCall(w, "update_record", "update_record")
    /\ UNCHANGED <<confVars, storageVars, notifyVars, lifeVars>>

update_record_notify(w) ==
    /\ NotifyAndReturn(w, "update_record", "record.update", call[w].record)
    /\ UNCHANGED <<confVars, storageVars, notifyVars, lifeVars>>

update_record(w) ==
    \/ update_record_call(w)
    \/ update_record_fetch(w)
    \/ update_record_storage(w)
    \/ update_record_backend(w)
    \/ update_record_notify(w)

delete_record_call(w) ==
    RecordCall(w, "delete_record", {"delete_record"}, {NoValues})

delete_record_fetch(w) ==
    /\ At(w, "delete_record", "get_record")
    /\ LET f == RecordFetched(call[w], "delete_record",
                              GetRecord(call[w].record_id))
       IN  call' = [call EXCEPT ![w] =
                IF f.pc = "checked" THEN [f EXCEPT !.pc = "backend"] ELSE f]
    /\ UNCHANGED <<confVars, storageVars, notifyVars, lifeVars>>

delete_record_backend(w) ==
    /\ BackendCall(w, "delete_record", "delete_record")
    /\ UNCHANGED <<confVars, storageVars, notifyVars, lifeVars>>

delete_record_notify(w) ==
    /\ At(w, "delete_record", "notify")
    /\ call' = [call EXCEPT ![w] =
                    [Effect(@, "notify.record.delete") EXCEPT
                        !.pc = "storage"]]
    /\ UNCHANGED <<confVars, storageVars, notifyVars, lifeVars>>

delete_record_storage(w) ==
    /\ At(w, "delete_record", "storage")
    /\ LET found == GetRecord(call[w].record_id)
       IN  IF found = {}
           THEN /\ call' = [call EXCEPT ![w] = Raise(@, "RecordNotFound")]
                /\ UNCHANGED records
           ELSE /\ records' = records \ found
                /\ call' = [call EXCEPT ![w] =
                        Return(Effect(@, "storage.delete_record"),
                               TheOne(found))]
    /\ UNCHANGED <<domains, servers, tsigkeys, nextId, confVars, notifyVars, lifeVars>>

delete_record(w) ==
    \/ delete_record_call(w)
    \/ delete_record_fetch(w)
    \/ delete_record_backend(w)
    \/ delete_record_notify(w)
    \/ delete_record_storage(w)

(***************************************************************************)
(* Diagnostics: sync_all, sync_domain, sync_record.                        *)
(***************************************************************************)
\* storage_conn.get_records(context, domain_id): the Records of the Domain
StorageGetRecords(domain_id) == {r \in records : r.domain_id = domain_id}

\* the rows of a listing in the order Storage gives them: by id
InOrderOfId(rows) ==
    CHOOSE seq \in [1..Cardinality(rows) -> rows] :
        \A j \in DOMAIN seq : \A k \in DOMAIN seq :
            j < k => seq[j].id < seq[k].id

\* sync_domain called without servers
ServersOmitted == {"omitted"}

\* what the Backend returns from sync_domain: it stands for the arguments of
\* the call
SyncDomainResult(domain, recs, srvs) ==
    [domain |-> domain, records |-> recs, servers |-> srvs]

\* what the Backend returns from sync_record
SyncRecordResult(domain, record) == [domain |-> domain, record |-> record]

\* results[id] = result
WithResult(results, id, result) ==
    [k \in DOMAIN results \cup {id} |->
        IF k = id THEN result ELSE results[k]]

\* sync_all, lines 482-485
sync_all_call(w) ==
    /\ Idle(w)
    /\ \E granted \in Verdicts({"diagnostics_sync_all"}) :
        LET f == [IdleCall EXCEPT !.op = "sync_all", !.granted = granted]
        IN  call' = [call EXCEPT ![w] =
                IF ~Granted(f, "diagnostics_sync_all")
                THEN Raise(f, "Forbidden")
                ELSE [f EXCEPT !.pc = "loop",
                               !.todo = InOrderOfId(StorageGetDomains(<< >>))]]
    /\ UNCHANGED <<confVars, storageVars, notifyVars, lifeVars>>

\* sync_all stopping after the first Domain
SyncAllNext_first_only(f) == [results |-> f.results]

\* sync_all, line 487: the loop goes on while Domains are left
SyncAllNext(f) ==
    IF f.todo = << >> THEN [results |-> f.results] ELSE NoRet

\* sync_all, lines 487-496: one turn of the loop (get_servers, get_records,
\* backend.sync_domain), or the return when no Domain is left
sync_all_loop(w) ==
    /\ At(w, "sync_all", "loop")
    /\ LET f == call[w]
           domain == Head(f.todo)
           result == SyncDomainResult(domain, StorageGetRecords(domain.id),
                                      servers)
           after == [Effect(f, "backend.sync_domain") EXCEPT
                        !.todo = Tail(f.todo),
                        !.results = WithResult(f.results, domain.id, result)]
       IN  IF f.todo = << >>
           THEN call' = [call EXCEPT ![w] = Return(f, [results |-> f.results])]
           ELSE \/ call' = [call EXCEPT ![w] =
                        IF SyncAllNext(after) = NoRet THEN after
                        ELSE Return(after, SyncAllNext(after))]
                \/ call' = [call EXCEPT ![w] = Raise(f, "BackendError")]
    /\ UNCHANGED <<confVars, storageVars, notifyVars, lifeVars>>

sync_all(w) == sync_all_call(w) \/ sync_all_loop(w)

\* sync_domain, lines 499-507
sync_domain_call(w) ==
    /\ Idle(w)
    /\ \E domain_id \in DomainIds,
          granted \in Verdicts({"diagnostics_sync_domain"}) :
        LET f == [IdleCall EXCEPT !.op = "sync_domain",
                     !.granted = granted, !.domain_id = domain_id]
            found == GetDomain(domain_id)
        IN  call' = [call EXCEPT ![w] =
                IF found = {} THEN Raise(f, "DomainNotFound")
                ELSE IF ~Granted(f, "diagnostics_sync_domain")
                     THEN Raise(f, "Forbidden")
                ELSE [f EXCEPT !.pc = "backend", !.domain = TheOne(found)]]
    /\ UNCHANGED <<confVars, storageVars, notifyVars, lifeVars>>

\* sync_domain, lines 509-511
sync_domain_backend(w) ==
    /\ At(w, "sync_domain", "backend")
    /\ \/ call' = [call EXCEPT ![w] =
                Return(Effect(@, "backend.sync_domain"),
                       SyncDomainResult(@.domain,
                                        StorageGetRecords(@.domain_id),
                                        ServersOmitted))]
       \/ call' = [call EXCEPT ![w] = Raise(@, "BackendError")]
    /\ UNCHANGED <<confVars, storageVars, notifyVars, lifeVars>>

sync_domain(w) == sync_domain_call(w) \/ sync_domain_backend(w)

\* sync_record, lines 514-523
sync_record_call(w) ==
    /\ Idle(w)
    /\ \E domain_id \in DomainIds, record_id \in RecordIds,
          granted \in Verdicts({"diagnostics_sync_record"}) :
        LET f == [IdleCall EXCEPT !.op = "sync_record",
                     !.granted = granted, !.domain_id = domain_id,
                     !.record_id = record_id]
            found == GetDomain(domain_id)
        IN  call' = [call EXCEPT ![w] =
                IF found = {} THEN Raise(f, "DomainNotFound")
                ELSE IF ~Granted(f, "diagnostics_sync_record")
                     THEN Raise(f, "Forbidden")
                ELSE [f EXCEPT !.pc = "get_record", !.domain = TheOne(found)]]
    /\ UNCHANGED <<confVars, storageVars, notifyVars, lifeVars>>

\* sync_record, line 525
sync_record_fetch(w) ==
    /\ At(w, "sync_record", "get_record")
    /\ LET found == GetRecord(call[w].record_id)
       IN  call' = [call EXCEPT ![w] =
                IF found = {} THEN Raise(@, "RecordNotFound")
                ELSE [@ EXCEPT !.pc = "backend", !.record = TheOne(found)]]
    /\ UNCHANGED <<confVars, storageVars, notifyVars, lifeVars>>

\* sync_record, line 527
sync_record_backend(w) ==
    /\ At(w, "sync_record", "backend")
    /\ \/ call' = [call EXCEPT ![w] =
                Return(Effect(@, "backend.sync_record"),
                       SyncRecordResult(@.domain, @.record))]
       \/ call' = [call EXCEPT ![w] = Raise(@, "BackendError")]
    /\ UNCHANGED <<confVars, storageVars, notifyVars, lifeVars>>

sync_record(w) ==
    \/ sync_record_call(w)
    \/ sync_record_fetch(w)
    \/ sync_record_backend(w)

(***************************************************************************)
(* Diagnostics: ping.                                                      *)
(***************************************************************************)
Host == "central-1"

\* what a ping of a collaborator returns: a status mapping, or a value that
\* is no mapping
PingValues ==
    {PyDict([status |-> TRUE]), PyDict([status |-> FALSE]), PyDict(<< >>),
     PyNone, PyTrue, PyFalse}

\* what a ping of a collaborator comes to
PingOutcomes ==
    {Returned(v) : v \in PingValues}
        \cup {Raised(m) : m \in {"connection refused", "timeout"}}

\* try: status = collaborator.ping(context)
\* except Exception, e: status = {'status': False, 'message': str(e)}
PingStatus(outcome) ==
    IF outcome.raised
    THEN PyDict([status |-> FALSE, message |-> outcome.message])
    ELSE outcome.value

\* lines 542-545: if backend_status and storage_status
PingOverall(backend_status, storage_status) ==
    Truthy(backend_status) /\ Truthy(storage_status)

ping_call(w) ==
    /\ Idle(w)
    /\ \E ctx \in Contexts, granted \in Verdicts({"diagnostics_ping"}) :
        LET f == [IdleCall EXCEPT !.op = "ping", !.granted = granted]
        IN  call' = [call EXCEPT ![w] =
                IF ~Granted(f, "diagnostics_ping") THEN Raise(f, "Forbidden")
                ELSE [f EXCEPT !.pc = "backend"]]
    /\ UNCHANGED <<confVars, storageVars, notifyVars, lifeVars>>

\* ping without the try / except around self.backend.ping
PingBackend_unguarded(f, outcome) ==
    IF outcome.raised THEN Raise([f EXCEPT !.backend_ping = outcome], "Error")
    ELSE [f EXCEPT !.pc = "storage", !.backend_ping = outcome,
                   !.backend_status = outcome.value]

\* lines 532-535, for what self.backend.ping came to
PingBackend(f, outcome) ==
    [f EXCEPT !.pc = "storage", !.backend_ping = outcome,
              !.backend_status = PingStatus(outcome)]

ping_backend(w) ==
    /\ At(w, "ping", "backend")
    /\ \E outcome \in PingOutcomes :
        call' = [call EXCEPT ![w] = PingBackend(@, outcome)]
    /\ UNCHANGED <<confVars, storageVars, notifyVars, lifeVars>>

\* lines 537-552, for what self.storage_conn.ping came to
PingStorage(f, outcome) ==
    LET storage_status == PingStatus(outcome)
    IN  Return([f EXCEPT !.storage_ping = outcome,
                         !.storage_status = storage_status],
               [host |-> Host,
                status |-> PingOverall(f.backend_status, storage_status),
                backend |-> f.backend_status,
                storage |-> storage_status])

ping_storage(w) ==
    /\ At(w, "ping", "storage")
    /\ \E outcome \in PingOutcomes :
        call' = [call EXCEPT ![w] = PingStorage(@, outcome)]
    /\ UNCHANGED <<confVars, storageVars, notifyVars, lifeVars>>

ping(w) == ping_call(w) \/ ping_backend(w) \/ ping_storage(w)

(***************************************************************************)
(* Notification dispatch.                                                  *)
(***************************************************************************)
\* no notification is being processed
NoDispatch ==
    [pc |-> "idle", notification |-> [payload |-> ""], k |-> 0,
     invoked |-> << >>, error |-> "none"]

EventTypes == {"compute.instance.create.end", "compute.instance.delete.start",
               "port.delete.end", "compute.instance.exists"}

H_nova ==
    [name |-> "nova_fixed",
     exchange |-> "nova", topics |-> <<"notifications.info">>,
     event_types |-> {"compute.instance.create.end",
                      "compute.instance.delete.start"}]

H_quantum ==
    [name |-> "quantum_floatingip",
     exchange |-> "quantum", topics |-> <<"notifications.info">>,
     event_types |-> {"compute.instance.delete.start", "port.delete.end"}]

\* the lists of handlers _init_extensions loads, per configuration
HandlerConfigs ==
    {<< >>, <<H_nova>>, <<H_quantum>>, <<H_nova, H_quantum>>,
     <<H_quantum, H_nova>>}

\* the inbound notifications; one may lack its event_type
Notifications ==
    {[event_type |-> e, payload |-> p] : e \in EventTypes, p \in {"p1", "p2"}}
        \cup {[payload |-> "p1"]}

\* notification.get('event_type')
GetEventType(notification) ==
    IF "event_type" \in DOMAIN notification THEN notification["event_type"]
    ELSE "None"

\* every handler taken to handle every event type
GetEventTypes_all(handler) == EventTypes

\* handler.get_event_types()
GetEventTypes(handler) == handler.event_types

\* _get_handler_event_types
GetHandlerEventTypes ==
    UNION {GetEventTypes(handlers[k]) : k \in 1..Len(handlers)}

\* the frame of _process_notification at handler k of the loop, or at its end
LoopAt(d, k) ==
    IF k <= Len(handlers) THEN [d EXCEPT !.pc = "loop", !.k = k]
    ELSE [d EXCEPT !.pc = "done"]

\* _process_notification, lines 128-132: the loop is entered only when some
\* handler handles the event type
ProcessNotification(notification) ==
    LET d == [pc |-> "call", notification |-> notification, k |-> 0,
              invoked |-> << >>, error |-> "none"]
    IN  IF GetEventType(notification) \in GetHandlerEventTypes
        THEN LoopAt(d, 1)
        ELSE [d EXCEPT !.pc = "done"]

process_notification_call ==
    /\ disp.pc = "idle"
    /\ \E notification \in Notifications :
        disp' = ProcessNotification(notification)
    /\ UNCHANGED <<confVars, storageVars, call, handlers, lifeVars>>

\* the loop going on to the next handler after a handler has raised
process_notification_for_handler_isolated ==
    /\ disp.pc = "loop"
    /\ LET handler == handlers[disp.k]
           invoked == [disp EXCEPT !.invoked = Append(@, handler.name)]
       IN  IF disp.notification["event_type"] \in GetEventTypes(handler)
           THEN \/ disp' = LoopAt(invoked, disp.k + 1)
                \/ disp' = LoopAt([invoked EXCEPT !.error = "HandlerError"],
                                  disp.k + 1)
           ELSE disp' = LoopAt(disp, disp.k + 1)
    /\ UNCHANGED <<confVars, storageVars, call, handlers, lifeVars>>

\* _process_notification_for_handler: the handler takes the notification,
\* or raises, when its event types hold the notification's
process_notification_for_handler ==
    /\ disp.pc = "loop"
    /\ LET handler == handlers[disp.k]
           invoked == [disp EXCEPT !.invoked = Append(@, handler.name)]
       IN  IF disp.notification["event_type"] \in GetEventTypes(handler)
           THEN \/ disp' = LoopAt(invoked, disp.k + 1)
                \/ disp' = [invoked EXCEPT !.pc = "done",
                                           !.error = "HandlerError"]
           ELSE disp' = LoopAt(disp, disp.k + 1)
    /\ UNCHANGED <<confVars, storageVars, call, handlers, lifeVars>>

\* the transport takes the callback's return (or its error)
process_notification_return ==
    /\ disp.pc = "done"
    /\ disp' = NoDispatch
    /\ UNCHANGED <<confVars, storageVars, call, handlers, lifeVars>>

(***************************************************************************)
(* Subscriptions and the transport's deliveries.                           *)
(***************************************************************************)
MaxPublished == 2

Exchanges == {"nova", "quantum"}

Topics == {"notifications.info", "notifications.error"}

\* no delivery is with the callback
NoDelivery == [id |-> 0]

\* the transport before any consumer is declared
NoBus ==
    [queues |-> {}, pending |-> {}, current |-> NoDelivery,
     processed |-> << >>, published |-> 0]

\* handler.get_exchange_topics()
GetExchangeTopics(handler) ==
    [exchange |-> handler.exchange, topics |-> handler.topics]

\* "moniker.notifications.%s.%s.%s" % (canonical name, exchange, topic)
QueueName(handler, exchange, topic) ==
    "moniker.notifications." \o handler.name \o "." \o exchange
        \o "." \o topic

\* _setup_subscriptions: one topic consumer is declared per handler and
\* topic, every one with the callback _process_notification
SetupSubscriptions(b, loaded) ==
    [b EXCEPT !.queues = @ \cup UNION {
        LET handler == loaded[h]
            et == GetExchangeTopics(handler)
        IN  {[queue_name |-> QueueName(handler, et.exchange, et.topics[t]),
              topic |-> et.topics[t],
              exchange_name |-> et.exchange] : t \in 1..Len(et.topics)}
        : h \in 1..Len(loaded)}]

\* a handler subscribed to other topics of another exchange
Subscribed(handler, exchange, topics) ==
    [handler EXCEPT !.exchange = exchange, !.topics = topics]

\* the handlers loaded, with the exchanges and topics configured for them
SubscriberConfigs ==
    {<<H_nova>>,
     <<Subscribed(H_nova, "nova",
                  <<"notifications.info", "notifications.error">>)>>,
     <<H_nova, H_quantum>>,
     <<H_nova, Subscribed(H_quantum, "nova", <<"notifications.info">>)>>}

\* a notification is published on a topic of an exchange: the transport puts
\* one copy in every queue declared for that exchange and topic
publish ==
    /\ svc.consuming
    /\ bus.published < MaxPublished
    /\ \E exchange \in Exchanges, topic \in Topics,
          notification \in Notifications :
        bus' = [bus EXCEPT
            !.published = @ + 1,
            !.pending = @ \cup
                {[id |-> bus.published + 1, queue_name |-> q.queue_name,
                  notification |-> notification] :
                    q \in {c \in bus.queues : /\ c.exchange_name = exchange
                                              /\ c.topic = topic}}]
    /\ UNCHANGED <<confVars, storageVars, call, notifyVars, svc>>

\* consume_in_thread_group: the transport takes a delivery off a queue and
\* calls the callback declared for the queue, _process_notification
deliver ==
    /\ svc.consuming
    /\ disp.pc = "idle"
    /\ \E m \in bus.pending :
        /\ disp' = ProcessNotification(m.notification)
        /\ bus' = [bus EXCEPT !.pending = @ \ {m}, !.current = m]
    /\ UNCHANGED <<confVars, storageVars, call, handlers, svc>>

\* the callback has returned (or raised): the delivery is done with
delivered ==
    /\ bus.current # NoDelivery
    /\ disp.pc = "done"
    /\ disp' = NoDispatch
    /\ bus' = [bus EXCEPT
            !.current = NoDelivery,
            !.processed = Append(@, [delivery |-> bus.current,
                                     invoked |-> disp.invoked])]
    /\ UNCHANGED <<confVars, storageVars, call, handlers, svc>>

(***************************************************************************)
(* start() and stop().                                                     *)
(***************************************************************************)
\* the service as __init__ leaves it: a transport connection only when
\* handlers are loaded (lines 55-57)
Constructed(loaded) ==
    [pc |-> "constructed",
     rpc_conn |-> IF loaded # << >> THEN "open" ELSE "none",
     rpc_service |-> "constructed", backend |-> "constructed",
     consuming |-> FALSE, stopping |-> << >>]

\* start(), lines 78-84
Started(s, loaded) ==
    [s EXCEPT !.pc = "started", !.backend = "started",
              !.rpc_service = "started", !.consuming = (loaded # << >>)]

\* the service as start() leaves it
Serving(loaded) == Started(Constructed(loaded), loaded)

start ==
    /\ svc.pc = "constructed"
    /\ svc' = Started(svc, handlers)
    /\ bus' = SetupSubscriptions(bus, handlers)
    /\ UNCHANGED <<confVars, storageVars, call, handlers, disp>>

\* what self.rpc_conn.close() comes to
CloseOutcomes == {Returned(PyNone), Raised("connection reset")}

\* stop() with the close of the connection outside any try
StopClose_unguarded(s, loaded, outcome) ==
    IF loaded = << >> THEN [s EXCEPT !.pc = "super_stop"]
    ELSE IF outcome.raised
         THEN [s EXCEPT !.pc = "stop_raised",
                        !.stopping = Append(@, "close_raised")]
    ELSE [s EXCEPT !.pc = "super_stop", !.rpc_conn = "closed",
                   !.stopping = Append(@, "close")]

\* stop(), lines 87-93: the connection is closed only when handlers are
\* loaded, and what the close raises is passed over
StopClose(s, loaded, outcome) ==
    IF loaded = << >> THEN [s EXCEPT !.pc = "super_stop"]
    ELSE IF outcome.raised
         THEN [s EXCEPT !.pc = "super_stop",
                        !.stopping = Append(@, "close_raised")]
    ELSE [s EXCEPT !.pc = "super_stop", !.rpc_conn = "closed",
                   !.stopping = Append(@, "close")]

stop_close ==
    /\ svc.pc = "started"
    /\ \E outcome \in CloseOutcomes : svc' = StopClose(svc, handlers, outcome)
    /\ UNCHANGED <<confVars, storageVars, call, handlers, disp, bus>>

\* line 95: super(Service, self).stop()
stop_super ==
    /\ svc.pc = "super_stop"
    /\ svc' = [svc EXCEPT !.pc = "backend_stop", !.rpc_service = "stopped",
                          !.consuming = FALSE,
                          !.stopping = Append(@, "super.stop")]
    /\ UNCHANGED <<confVars, storageVars, call, handlers, disp, bus>>

\* line 96: self.backend.stop(), which the driver does or raises
stop_backend ==
    /\ svc.pc = "backend_stop"
    /\ \/ svc' = [svc EXCEPT !.pc = "stopped", !.backend = "stopped",
                             !.stopping = Append(@, "backend.stop")]
       \/ svc' = [svc EXCEPT !.pc = "stop_raised",
                             !.stopping = Append(@, "backend.stop_raised")]
    /\ UNCHANGED <<confVars, storageVars, call, handlers, disp, bus>>

stop == stop_close \/ stop_super \/ stop_backend

\* the transport hands a notification to the callback while the service
\* consumes
consume ==
    /\ svc.consuming
    /\ process_notification_call

(***************************************************************************)
(* The service under requests: one worker runs one operation at a time.    *)
(***************************************************************************)
Init ==
    /\ workers = {1}
    /\ blacklists \in BlacklistConfigs
    /\ InitStorage
    /\ InitCalls
    /\ handlers = << >>
    /\ disp = NoDispatch
    /\ svc = Serving(handlers)
    /\ bus = SetupSubscriptions(NoBus, handlers)

Next ==
    \E w \in AllWorkers :
        \/ create_server(w)
        \/ delete_server(w)
        \/ create_tsigkey(w)
        \/ update_tsigkey(w)
        \/ create_domain(w)
        \/ update_domain(w)
        \/ create_record(w)
        \/ get_record(w)
        \/ update_record(w)
        \/ delete_record(w)
        \/ rpc_reply(w)

Spec == Init /\ [][Next]_vars

(***************************************************************************)
(* The service under creations and deletions of Domains, Records and       *)
(* TsigKeys.                                                               *)
(***************************************************************************)
NextDelete ==
    \E w \in AllWorkers :
        \/ create_tsigkey(w)
        \/ delete_tsigkey(w)
        \/ create_domain(w)
        \/ delete_domain(w)
        \/ create_record(w)
        \/ delete_record(w)
        \/ rpc_reply(w)

SpecDelete == Init /\ [][NextDelete]_vars

(***************************************************************************)
(* The service under every operation that writes: the create, update and   *)
(* delete of Servers, TsigKeys, Domains and Records, in a deployment whose  *)
(* blacklist holds one pattern.                                            *)
(***************************************************************************)
InitWrites ==
    /\ Init
    /\ blacklists = <<P_a>>

NextWrites ==
    \E w \in AllWorkers :
        \/ create_server(w)
        \/ delete_server(w)
        \/ create_tsigkey(w)
        \/ update_tsigkey(w)
        \/ delete_tsigkey(w)
        \/ create_domain(w)
        \/ update_domain(w)
        \/ delete_domain(w)
        \/ create_record(w)
        \/ update_record(w)
        \/ delete_record(w)
        \/ rpc_reply(w)

SpecWrites == InitWrites /\ [][NextWrites]_vars

(***************************************************************************)
(* The service under the operations on Domains.                            *)
(***************************************************************************)
NextDomains ==
    \E w \in AllWorkers :
        \/ create_domain(w)
        \/ get_domains(w)
        \/ update_domain(w)
        \/ delete_domain(w)
        \/ rpc_reply(w)

SpecDomains == Init /\ [][NextDomains]_vars

(***************************************************************************)
(* The service under concurrent creations of Domains: two workers, each    *)
(* running one create_domain at a time.                                    *)
(***************************************************************************)
InitRace ==
    /\ workers = AllWorkers
    /\ blacklists \in BlacklistConfigs
    /\ InitStorage
    /\ InitCalls
    /\ handlers = << >>
    /\ disp = NoDispatch
    /\ svc = Serving(handlers)
    /\ bus = SetupSubscriptions(NoBus, handlers)

NextRace == \E w \in AllWorkers : create_domain(w) \/ rpc_reply(w)

SpecRace == InitRace /\ [][NextRace]_vars

(***************************************************************************)
(* The service under concurrent deletions of Domains: two workers, each    *)
(* running one delete_domain at a time, on a Domain and its subdomain that *)
(* a tenant has created.                                                   *)
(***************************************************************************)
InitDeleteRace ==
    /\ workers = AllWorkers
    /\ blacklists = <<P_a>>
    /\ \E t \in Tenants :
        domains = {NewDomain(1, [name |-> N_c, tenant_id |-> t]),
                   NewDomain(2, [name |-> N_bc, tenant_id |-> t,
                                 parent_domain_id |-> 1])}
    /\ records = {}
    /\ servers = {1}
    /\ tsigkeys = {}
    /\ nextId = [domain |-> 3, record |-> 1, server |-> 2, tsigkey |-> 1]
    /\ InitCalls
    /\ handlers = << >>
    /\ disp = NoDispatch
    /\ svc = Serving(handlers)
    /\ bus = SetupSubscriptions(NoBus, handlers)

NextDeleteRace == \E w \in AllWorkers : delete_domain(w) \/ rpc_reply(w)

SpecDeleteRace == InitDeleteRace /\ [][NextDeleteRace]_vars

(***************************************************************************)
(* The service under the sync operations, on the Domains, Records and      *)
(* Servers that creations leave in Storage.                                *)
(***************************************************************************)
NextSync ==
    \E w \in AllWorkers :
        \/ create_server(w)
        \/ create_domain(w)
        \/ create_record(w)
        \/ sync_all(w)
        \/ sync_domain(w)
        \/ sync_record(w)
        \/ rpc_reply(w)

\* the loop of sync_all is run by one thread: it goes on until it is through
SpecSync ==
    Init /\ [][NextSync]_vars /\ WF_vars(\E w \in AllWorkers : sync_all_loop(w))

(***************************************************************************)
(* The service under health checks.                                        *)
(***************************************************************************)
NextPing == \E w \in AllWorkers : ping(w) \/ rpc_reply(w)

SpecPing == Init /\ [][NextPing]_vars

(***************************************************************************)
(* The service under inbound notifications.                                *)
(***************************************************************************)
InitNotify ==
    /\ workers = {1}
    /\ blacklists \in BlacklistConfigs
    /\ InitStorage
    /\ InitCalls
    /\ handlers \in HandlerConfigs
    /\ disp = NoDispatch
    /\ svc = Serving(handlers)
    /\ bus = SetupSubscriptions(NoBus, handlers)

NextNotify ==
    \/ process_notification_call
    \/ process_notification_for_handler
    \/ process_notification_return

SpecNotify == InitNotify /\ [][NextNotify]_vars

(***************************************************************************)
(* The service under the notifications published on the exchanges and      *)
(* topics its handlers are subscribed to.                                  *)
(***************************************************************************)
InitDeliver ==
    /\ workers = {1}
    /\ blacklists = <<P_a>>
    /\ InitStorage
    /\ InitCalls
    /\ handlers \in SubscriberConfigs
    /\ disp = NoDispatch
    /\ svc = Serving(handlers)
    /\ bus = SetupSubscriptions(NoBus, handlers)

NextDeliver ==
    \/ publish
    \/ deliver
    \/ process_notification_for_handler
    \/ delivered

SpecDeliver == InitDeliver /\ [][NextDeliver]_vars


(***************************************************************************)
(* The service from construction to shutdown, under the notifications it   *)
(* consumes.  stop() is straight-line code run by one thread: once it has  *)
(* passed the close of the connection it goes on.                          *)
(***************************************************************************)
InitLife ==
    /\ workers = {1}
    /\ blacklists \in BlacklistConfigs
    /\ InitStorage
    /\ InitCalls
    /\ handlers \in HandlerConfigs
    /\ disp = NoDispatch
    /\ svc = Constructed(handlers)
    /\ bus = NoBus

NextLife ==
    \/ start
    \/ consume
    \/ process_notification_for_handler
    \/ process_notification_return
    \/ stop_close
    \/ stop_super
    \/ stop_backend

SpecLife ==
    InitLife /\ [][NextLife]_vars /\ WF_vars(stop_super \/ stop_backend)

(***************************************************************************)
(* Properties.                                                             *)
(***************************************************************************)
\* the frames of an operation that has ended (returned or raised)
Done(op) == {call[w] : w \in {v \in AllWorkers :
                                call[v].op = op /\ call[v].pc = "done"}}

\* the frames of an operation, at any step
Running(op) == {call[w] : w \in {v \in AllWorkers : call[v].op = op}}

\* C1: ping: whenever the Backend driver's ping raises, the result has
\* backend.status = false and overall status = false, and its storage part
\* is what Storage.ping reported.
C1_BackendDownPingFalse ==
    \A f \in Done("ping") :
        (f.result = "ok" /\ f.backend_ping.raised) =>
            /\ f.ret.backend.dict.status = FALSE
            /\ f.ret.status = FALSE
            /\ ~f.storage_ping.raised => f.ret.storage = f.storage_ping.value

\* C2, as stated: ping never raises, whatever PolicyGate, Backend.ping and
\* Storage.ping do: every ping returns a structured status result.
C2_PingNeverRaises ==
    \A f \in Done("ping") :
        /\ f.result = "ok"
        /\ DOMAIN f.ret = {"host", "status", "backend", "storage"}

\* C2, amended: a ping PolicyGate grants never raises, whatever Backend.ping
\* and Storage.ping do (each may raise): it returns a structured status
\* result; a ping PolicyGate denies raises Forbidden before either
\* collaborator is pinged.
C2_GrantedPingNeverRaises ==
    \A f \in Done("ping") :
        IF Granted(f, "diagnostics_ping")
        THEN /\ f.result = "ok"
             /\ DOMAIN f.ret = {"host", "status", "backend", "storage"}
             /\ f.ret.status \in BOOLEAN
             /\ f.ret.host = Host
        ELSE /\ f.result = "Forbidden"
             /\ f.backend_ping = NoOutcome
             /\ f.storage_ping = NoOutcome

\* a granted ping during which both collaborators raised has returned
C2_Witness ==
    \E f \in Done("ping") :
        /\ f.backend_ping.raised
        /\ f.storage_ping.raised
        /\ f.result = "ok"

\* the names a stored ancestor of name may bear: what follows one of its dots
AncestorNames(name) ==
    {SubSeq(name, k + 1, Len(name)) : k \in {j \in 1..Len(name) : name[j] = Dot}}

StoredAncestors(name) == {d \in domains : d.name \in AncestorNames(name)}

\* the stored ancestor with the longest name, if there is one
NearestAncestors(name) ==
    {d \in StoredAncestors(name) :
        \A e \in StoredAncestors(name) : Len(e.name) <= Len(d.name)}

\* s is some prefix followed by suffix
IsSuffix(suffix, s) ==
    \E k \in 0..Len(s) : s = SubSeq(s, 1, k) \o suffix

\* the caller of create_domain passes policy, and the nearest stored ancestor
\* of the name, if any, is the caller's
OtherwiseValid(f) ==
    /\ f.granted = {"create_domain", "use_blacklisted_domain"}
    /\ \A d \in NearestAncestors(f.values["name"]) :
            d.tenant_id = f.values["tenant_id"]

\* C3: create_domain while Storage holds no Server writes no Domain, calls no
\* Backend.create_domain and emits no domain.create; it fails, with
\* NoServersConfigured when the input is otherwise valid; the step that
\* raises NoServersConfigured leaves Storage as it is.
C3_NoServersConfigured ==
    /\ [](\A f \in Running("create_domain") :
            servers = {} =>
                /\ f.effects = << >>
                /\ f.pc = "done" =>
                    /\ f.result \in {"Forbidden", "NoServersConfigured"}
                    /\ OtherwiseValid(f) => f.result = "NoServersConfigured")
    /\ [][\A w \in AllWorkers :
            (call'[w].op = "create_domain"
                /\ call'[w].result = "NoServersConfigured")
            => /\ call'[w].effects = << >>
               /\ UNCHANGED storageVars]_vars

\* an otherwise valid create_domain has raised NoServersConfigured while
\* Storage holds Domains and no Server
C3_Witness ==
    \E f \in Done("create_domain") :
        /\ servers = {}
        /\ domains # {}
        /\ OtherwiseValid(f)
        /\ f.result = "NoServersConfigured"

\* C4: create_domain with a name that matches a configured blacklist pattern,
\* by a caller not granted use_blacklisted_domain, fails with Forbidden and
\* writes nothing to Storage.
C4_BlacklistedForbidden ==
    \A f \in Done("create_domain") :
        (/\ \E k \in DOMAIN blacklists : ReSearch(blacklists[k], f.values["name"])
         /\ ~Granted(f, "use_blacklisted_domain"))
        => /\ f.result = "Forbidden"
           /\ f.effects = << >>

\* C5: create_domain is decided by the nearest stored ancestor of the name
\* alone: when another tenant owns it the call fails with Forbidden and
\* writes nothing, whatever lies further up; when the caller's tenant owns
\* it the Domain created has its id as parent_domain_id; when there is none
\* the Domain created has no parent_domain_id.
C5_NearestAncestorDecides ==
    \A f \in Done("create_domain") :
        LET near == NearestAncestors(f.values["name"])
        IN  /\ (\E d \in near : d.tenant_id # f.values["tenant_id"])
                => /\ f.result = "Forbidden"
                   /\ f.effects = << >>
                   /\ FindDomain(f.values["name"]) \subseteq
                        {d \in domains : d.id < nextId.domain}
            /\ f.result = "ok"
                => /\ f.ret \in domains
                   /\ f.ret.name = f.values["name"]
                   /\ f.ret.tenant_id = f.values["tenant_id"]
                   /\ f.ret.parent_domain_id =
                        (IF near = {} THEN NoId ELSE TheOne(near).id)
                   /\ \A d \in near : d.tenant_id = f.values["tenant_id"]

\* a caller who passes policy is refused for the nearest ancestor, another
\* tenant's, while a Domain of its own tenant lies further up
C5_Witness ==
    \E f \in Done("create_domain") :
        /\ f.granted = {"create_domain", "use_blacklisted_domain"}
        /\ f.result = "Forbidden"
        /\ \E d \in NearestAncestors(f.values["name"]) :
                d.tenant_id # f.values["tenant_id"]
        /\ \E e \in StoredAncestors(f.values["name"]) :
                e.tenant_id = f.values["tenant_id"]

\* the frame names a record name that lies outside the zone of Domain d
OutOfZone(f, d) ==
    /\ "name" \in DOMAIN f.values
    /\ ~IsSuffix(d.name, f.values["name"])

\* C6: zone containment: create_record and update_record given a record name
\* that does not end with the name of the owning Domain fail and leave
\* Storage unchanged, with BadRequest once the rows are found and policy is
\* passed (a lookup or policy failure comes first); every Record in Storage
\* has a name that ends with the name of its Domain.
C6_ZoneContainment ==
    /\ [](\A f \in Running("create_record") : \A d \in GetDomain(f.domain_id) :
            OutOfZone(f, d) =>
                /\ f.pc = "done"
                /\ f.result \in {"Forbidden", "BadRequest"}
                /\ f.effects = << >>
                /\ Granted(f, "create_record") => f.result = "BadRequest")
    /\ [](\A f \in Running("update_record") : \A d \in GetDomain(f.domain_id) :
            (OutOfZone(f, d) /\ f.pc \notin {"get_record"}) =>
                /\ f.pc = "done"
                /\ f.result \in {"RecordNotFound", "Forbidden", "BadRequest"}
                /\ f.effects = << >>
                /\ (/\ Granted(f, "update_record")
                    /\ \E r \in GetRecord(f.record_id) : r.domain_id = d.id)
                   => f.result = "BadRequest")
    /\ [](\A r \in records : \A d \in domains :
            d.id = r.domain_id => IsSuffix(d.name, r.name))
    /\ [][\A w \in AllWorkers :
            (/\ call'[w] # call[w]
             /\ call'[w].op \in {"create_record", "update_record"}
             /\ call'[w].result = "BadRequest")
            => UNCHANGED storageVars]_vars

\* update_record of a stored Record of the Domain, by a caller who passes
\* policy, has raised BadRequest for a name outside the zone
C6_Witness ==
    \E f \in Done("update_record") : \E d \in GetDomain(f.domain_id) :
        /\ OutOfZone(f, d)
        /\ Granted(f, "update_record")
        /\ f.record \in records
        /\ f.record.domain_id = d.id
        /\ f.result = "BadRequest"

\* the caller of update_domain passes the policy rules the call consults
PassesUpdateDomain(f) ==
    /\ Granted(f, "update_domain")
    /\ "tenant_id" \in DOMAIN f.values =>
            Granted(f, "delete_domain") /\ Granted(f, "create_domain")

\* C7: update_domain whose values hold a name other than the stored Domain's
\* fails, with BadRequest once policy is passed, and does no Storage update,
\* no Backend.update_domain and no domain.update notification; the name of a
\* stored Domain never changes; a name equal to the stored one is accepted.
C7_RenameRefused ==
    /\ [](\A f \in Running("update_domain") : \A d \in GetDomain(f.domain_id) :
            "name" \in DOMAIN f.values =>
                IF f.values["name"] # d.name
                THEN /\ f.pc = "done"
                     /\ f.result \in {"Forbidden", "BadRequest"}
                     /\ f.effects = << >>
                     /\ PassesUpdateDomain(f) => f.result = "BadRequest"
                ELSE /\ f.result # "BadRequest"
                     /\ (PassesUpdateDomain(f) /\ f.pc = "done") =>
                            /\ f.result \in {"ok", "BackendError"}
                            /\ f.effects # << >>)
    /\ [][/\ \A w \in AllWorkers :
                (/\ call'[w] # call[w]
                 /\ call'[w].op = "update_domain"
                 /\ call'[w].result = "BadRequest")
                => UNCHANGED storageVars
          /\ \A d \in domains : \A e \in domains' :
                e.id = d.id => e.name = d.name]_vars

\* update_domain by a caller who passes policy has raised BadRequest for a
\* name other than the stored one
C7_Witness ==
    \E f \in Done("update_domain") : \E d \in GetDomain(f.domain_id) :
        /\ "name" \in DOMAIN f.values
        /\ f.values["name"] # d.name
        /\ PassesUpdateDomain(f)
        /\ f.result = "BadRequest"

\* the operations addressed by (domain_id, record_id)
RecordOps == {"get_record", "update_record", "delete_record"}

\* the frame names a stored Domain and a stored Record of another Domain
Mismatched(f) ==
    /\ GetDomain(f.domain_id) # {}
    /\ \E r \in GetRecord(f.record_id) : r.domain_id # f.domain_id

\* C8: get_record, update_record and delete_record addressed by a stored
\* Domain D1 and a stored Record R whose domain_id is not D1 fail with
\* RecordNotFound: R is not returned, Storage is left as it is, and neither
\* the Backend nor the notifier is called.
C8_MismatchNotFound ==
    /\ [](\A op \in RecordOps : \A f \in Running(op) :
            Mismatched(f) =>
                /\ f.pc \in {"get_record", "done"}
                /\ f.pc = "done" =>
                    /\ f.result = "RecordNotFound"
                    /\ f.ret = NoRet
                    /\ f.record = NoRecord
                    /\ f.effects = << >>)
    /\ [][\A w \in AllWorkers :
            (/\ call'[w] # call[w]
             /\ call'[w].op \in RecordOps
             /\ call'[w].result = "RecordNotFound")
            => UNCHANGED storageVars]_vars

\* delete_record addressed by a stored Domain and a stored Record of another
\* Domain, by a caller who passes policy, has raised RecordNotFound
C8_Witness ==
    \E f \in Done("delete_record") :
        /\ Mismatched(f)
        /\ Granted(f, "delete_record")
        /\ f.result = "RecordNotFound"

\* the event types the loaded handlers declare
DeclaredEventTypes ==
    UNION {handlers[k].event_types : k \in DOMAIN handlers}

\* the notification being processed bears an event type no handler declares
\* (or bears none)
Undeclared ==
    /\ disp.pc # "idle"
    /\ \/ "event_type" \notin DOMAIN disp.notification
       \/ disp.notification["event_type"] \notin DeclaredEventTypes

\* C9: for an inbound notification whose event_type is not among the event
\* types the loaded handlers declare, no handler's process_notification is
\* invoked.
C9_UndeclaredNotDispatched ==
    Undeclared =>
        /\ disp.invoked = << >>
        /\ disp.pc = "done"
        /\ disp.error = "none"

\* with handlers loaded, a notification of an event type none of them
\* declares has been processed
C9_Witness ==
    /\ Undeclared
    /\ handlers # << >>
    /\ "event_type" \in DOMAIN disp.notification
    /\ disp.pc = "done"

\* the create and update operations on a Domain, a Record or a TsigKey, and
\* the notification each emits
CreateUpdateOps ==
    {"create_domain", "update_domain", "create_record", "update_record",
     "create_tsigkey", "update_tsigkey"}

EventOf(op) ==
    CASE op = "create_domain" -> "domain.create"
      [] op = "update_domain" -> "domain.update"
      [] op = "create_record" -> "record.create"
      [] op = "update_record" -> "record.update"
      [] op = "create_tsigkey" -> "tsigkey.create"
      [] op = "update_tsigkey" -> "tsigkey.update"

\* what a create or update operation does to its collaborators, in order
InOrder(op) ==
    <<"storage." \o op, "backend." \o op, "notify." \o EventOf(op)>>

IsPrefix(p, s) == Len(p) <= Len(s) /\ SubSeq(s, 1, Len(p)) = p

\* C10: within one create or update operation on a Domain, Record or TsigKey
\* the Storage write comes first, the Backend call second and the
\* notification last: the notification is emitted only after both have
\* succeeded, an operation that returns has done all three, and Storage
\* changes only in the step logged as the operation's Storage write.
C10_CreateUpdateOrdering ==
    /\ [](\A op \in CreateUpdateOps : \A f \in Running(op) :
            /\ IsPrefix(f.effects, InOrder(op))
            /\ f.result = "ok" => f.effects = InOrder(op)
            /\ f.pc = "backend" => f.effects = SubSeq(InOrder(op), 1, 1)
            /\ f.pc = "notify" => f.effects = SubSeq(InOrder(op), 1, 2))
    /\ [][\A w \in AllWorkers :
            (/\ call'[w] # call[w]
             /\ call'[w].op \in CreateUpdateOps
             /\ <<domains, records, tsigkeys>>' # <<domains, records, tsigkeys>>)
            => /\ call[w].effects = << >>
               /\ call'[w].effects = <<"storage." \o call'[w].op>>]_vars

\* update_record has returned after its Storage write, its Backend call and
\* its notification
C10_Witness ==
    \E f \in Done("update_record") :
        /\ f.result = "ok"
        /\ f.effects = InOrder("update_record")

\* the delete operations on a Domain, a Record or a TsigKey, and the
\* notification each emits
DeleteOps == {"delete_domain", "delete_record", "delete_tsigkey"}

DeleteEventOf(op) ==
    CASE op = "delete_domain" -> "domain.delete"
      [] op = "delete_record" -> "record.delete"
      [] op = "delete_tsigkey" -> "tsigkey.delete"

\* what a delete operation does to its collaborators, in order
DeleteInOrder(op) ==
    <<"backend." \o op, "notify." \o DeleteEventOf(op), "storage." \o op>>

\* the rows of the kind a delete operation removes
RowsOf(op) ==
    CASE op = "delete_domain" -> domains
      [] op = "delete_record" -> records
      [] op = "delete_tsigkey" -> tsigkeys

\* the row a delete operation is addressed to, if Storage holds it
Addressed(f) ==
    CASE f.op = "delete_domain" -> GetDomain(f.domain_id)
      [] f.op = "delete_record" -> GetRecord(f.record_id)
      [] f.op = "delete_tsigkey" -> GetTsigKey(f.tsigkey_id)

\* the Backend delete, then the notification, then the Storage delete: a
\* row leaves Storage only in the step logged as the Storage delete of an
\* operation whose Backend delete and notification are logged before it
BackendBeforeStorageDelete ==
    /\ [](\A op \in DeleteOps : \A f \in Running(op) :
            /\ IsPrefix(f.effects, DeleteInOrder(op))
            /\ f.result = "ok" => f.effects = DeleteInOrder(op)
            /\ f.result \notin {"ok", "none"} => Len(f.effects) # 3)
    /\ [][\A w \in AllWorkers :
            (/\ call'[w] # call[w]
             /\ call'[w].op \in DeleteOps
             /\ <<domains, records, tsigkeys>>' # <<domains, records, tsigkeys>>)
            => /\ call[w].effects = SubSeq(DeleteInOrder(call[w].op), 1, 2)
               /\ call'[w].effects = DeleteInOrder(call[w].op)
               /\ RowsOf(call[w].op)' \subseteq RowsOf(call[w].op)]_vars

\* C11, as stated: every delete operation fetches the row, then checks
\* policy, then deletes at the Backend, then notifies, then deletes in
\* Storage: an operation addressed to a row Storage does not hold fails on
\* the fetch, whatever PolicyGate's verdict, and a row leaves Storage only
\* after the Backend delete of the same operation.
C11_FetchPolicyBackendNotifyStorage ==
    /\ [](\A op \in DeleteOps : \A f \in Done(op) :
            (Addressed(f) = {} /\ f.effects = << >>) =>
                f.result \in {"DomainNotFound", "RecordNotFound",
                              "TsigKeyNotFound"})
    /\ BackendBeforeStorageDelete

\* C11, amended: delete_domain and delete_record fetch the row before they
\* check policy, delete_tsigkey checks policy before it fetches the row; each
\* of them then deletes at the Backend, then notifies, then deletes in
\* Storage, so a Domain, Record or TsigKey leaves Storage only after the
\* Backend delete of the same operation.
C11_BackendNotifyStorage ==
    /\ [](\A op \in DeleteOps : \A f \in Done(op) :
            (Addressed(f) = {} /\ f.effects = << >>) =>
                IF op = "delete_tsigkey" /\ ~Granted(f, op)
                THEN f.result = "Forbidden"
                ELSE f.result \in {"DomainNotFound", "RecordNotFound",
                                   "TsigKeyNotFound"})
    /\ BackendBeforeStorageDelete

\* a delete_domain has removed its Domain from Storage after the Backend
\* delete and the notification
C11_Witness ==
    \E f \in Done("delete_domain") :
        /\ f.result = "ok"
        /\ f.effects = DeleteInOrder("delete_domain")
        /\ f.domain \notin domains

\* the row a create or update operation wrote is in Storage as written
WrittenRowStored(f) ==
    CASE f.op \in {"create_domain", "update_domain"} -> f.domain \in domains
      [] f.op \in {"create_record", "update_record"} -> f.record \in records
      [] f.op \in {"create_tsigkey", "update_tsigkey"} -> f.tsigkey \in tsigkeys

\* C13: when the Backend call of a create or update operation fails after
\* the Storage write, the row stays in Storage as written, the error is
\* surfaced to the caller, no notification is emitted, and the operation
\* does nothing more: the failing step leaves Storage as it is and the only
\* step after it hands the error to the caller.
C13_NoRollback ==
    /\ [](\A op \in CreateUpdateOps : \A f \in Done(op) :
            f.result = "BackendError" =>
                /\ f.effects = <<"storage." \o op>>
                /\ WrittenRowStored(f)
                /\ f.ret = NoRet)
    /\ [][\A w \in AllWorkers :
            /\ (/\ call'[w] # call[w]
                /\ call'[w].op \in CreateUpdateOps
                /\ call'[w].result = "BackendError")
               => /\ call[w].pc = "backend"
                  /\ UNCHANGED storageVars
            /\ (/\ call'[w] # call[w]
                /\ call[w].op \in CreateUpdateOps
                /\ call[w].result = "BackendError")
               => /\ call'[w] = IdleCall
                  /\ UNCHANGED storageVars]_vars

\* create_domain has surfaced the Backend's error while the Domain it wrote
\* is in Storage
C13_Witness ==
    \E f \in Done("create_domain") :
        /\ f.result = "BackendError"
        /\ f.domain \in domains
        /\ f.domain.name = f.values["name"]

\* C14: every Domain whose parent_domain_id is set references a Domain in
\* Storage that is owned by the same tenant, in every state reached by
\* create_domain, update_domain (tenant transfers included) and
\* delete_domain.
C14_ParentSameTenant ==
    \A d \in domains :
        d.parent_domain_id # NoId =>
            \E parent \in domains :
                /\ parent.id = d.parent_domain_id
                /\ parent.tenant_id = d.tenant_id

\* the Domains in Storage that the criterion a caller gave selects
Selected(criterion) ==
    IF criterion = NoCriterion THEN domains
    ELSE {d \in domains :
            /\ "tenant_id" \in DOMAIN criterion.dict =>
                    d.tenant_id = criterion.dict["tenant_id"]
            /\ "name" \in DOMAIN criterion.dict =>
                    d.name = criterion.dict["name"]}

\* the Domains a tenant owns
DomainsOf(tenant_id) == {d \in domains : d.tenant_id = tenant_id}

\* C15: get_domains by a caller who is not an admin returns Domains of the
\* caller's tenant only: those the rest of the criterion selects, whatever
\* tenant_id the criterion names; by an admin it returns what the criterion
\* selects, and every Domain of every tenant when there is no criterion.
C15_ListingIsolation ==
    \A f \in Done("get_domains") :
        f.result = "ok" =>
            IF ~f.context.is_admin
            THEN /\ f.ret.rows \subseteq DomainsOf(f.context.tenant_id)
                 /\ f.ret.rows =
                        IF f.values = NoCriterion
                           \/ "name" \notin DOMAIN f.values.dict
                        THEN DomainsOf(f.context.tenant_id)
                        ELSE {d \in DomainsOf(f.context.tenant_id) :
                                d.name = f.values.dict["name"]}
            ELSE /\ f.ret.rows = Selected(f.values)
                 /\ f.values = NoCriterion => f.ret.rows = domains

\* while Storage holds Domains of two tenants, a caller who is not an admin
\* and names the other tenant in the criterion has been given the Domains of
\* its own tenant
C15_Witness ==
    \E f \in Done("get_domains") :
        /\ f.result = "ok"
        /\ ~f.context.is_admin
        /\ f.values # NoCriterion
        /\ "tenant_id" \in DOMAIN f.values.dict
        /\ f.values.dict["tenant_id"] # f.context.tenant_id
        /\ Selected(f.values) # {}
        /\ f.ret.rows # {}

\* the frame has had Backend.create_domain called (it did it, or raised)
BackendCreateCalled(f) ==
    \/ f.pc = "notify"
    \/ f.pc = "done" /\ f.result \in {"ok", "BackendError"}

\* the frame has passed the checks of create_domain and has had Storage take
\* or reject its insert
InsertTried(f) ==
    \/ f.pc \in {"backend", "notify"}
    \/ f.pc = "done" /\ f.result \in {"ok", "BackendError", "DuplicateDomain"}

\* C16: of two concurrent create_domain calls with the same name, in every
\* interleaving, Storage holds at most one Domain of that name; the call
\* whose insert Storage rejects fails with the conflict error, calls no
\* Backend.create_domain and emits no domain.create; of two calls whose
\* inserts were tried at most one has written, and only the one that wrote
\* the stored Domain reaches the Backend.
C16_CreationRace ==
    /\ \A d \in domains : \A e \in domains : d.name = e.name => d = e
    /\ \A f \in Running("create_domain") :
        /\ f.result = "DuplicateDomain" =>
                /\ f.effects = << >>
                /\ FindDomain(f.values["name"]) # {}
        /\ BackendCreateCalled(f) =>
                /\ f.effects # << >>
                /\ f.effects[1] = "storage.create_domain"
                /\ FindDomain(f.values["name"]) = {f.domain}
    /\ \A v \in AllWorkers : \A w \in AllWorkers \ {v} :
        (/\ call[v].op = "create_domain"
         /\ call[w].op = "create_domain"
         /\ call[v].values["name"] = call[w].values["name"]
         /\ InsertTried(call[v])
         /\ InsertTried(call[w]))
        => /\ \/ call[v].result = "DuplicateDomain"
              \/ call[w].result = "DuplicateDomain"
           /\ ~(BackendCreateCalled(call[v]) /\ BackendCreateCalled(call[w]))

\* one create_domain has been rejected with the conflict error while the
\* other, of the same name, is between its insert and its Backend call
C16_Witness ==
    \E v \in AllWorkers : \E w \in AllWorkers \ {v} :
        /\ call[v].op = "create_domain"
        /\ call[w].op = "create_domain"
        /\ call[v].values["name"] = call[w].values["name"]
        /\ call[v].result = "DuplicateDomain"
        /\ call[w].pc = "backend"

\* what stop() may have done to its collaborators, in order, when it is
\* through
StopSequences ==
    IF handlers # << >>
    THEN {<<c, "super.stop", b>> :
            c \in {"close", "close_raised"},
            b \in {"backend.stop", "backend.stop_raised"}}
    ELSE {<<"super.stop", b>> : b \in {"backend.stop", "backend.stop_raised"}}

\* the close of the connection raised during this stop()
CloseRaised == svc.stopping # << >> /\ svc.stopping[1] = "close_raised"

\* stop() has called self.backend.stop()
BackendStopCalled == svc.pc \in {"stopped", "stop_raised"}

\* C17: stop() tries to close the transport connection exactly when handlers
\* are loaded, passes over an error of that close, and stops the Backend
\* afterwards: the Backend is never stopped before the close attempt and the
\* stop of the RPC service, an error of the close is never what stop()
\* raises, and a stop() whose close raised goes on to stop the Backend.
C17_StopSwallowsClose ==
    /\ [](\E whole \in StopSequences : IsPrefix(svc.stopping, whole))
    /\ [](BackendStopCalled => svc.stopping \in StopSequences)
    /\ [](svc.backend = "stopped" => svc.pc = "stopped")
    /\ [](svc.pc = "stop_raised" =>
            svc.stopping[Len(svc.stopping)] = "backend.stop_raised")
    /\ [](handlers = << >> => svc.rpc_conn = "none")
    /\ (CloseRaised ~> BackendStopCalled)

\* with handlers loaded, the service has stopped its Backend after a close
\* that raised
C17_Witness ==
    /\ handlers # << >>
    /\ CloseRaised
    /\ svc.pc = "stopped"
    /\ svc.backend = "stopped"

\* the names of the handlers, among the first n in registration order, whose
\* declared event types hold the event type
InterestedAmong(n, event_type) ==
    LET Declares(h) == event_type \in h.event_types
        chosen == SelectSeq(SubSeq(handlers, 1, n), Declares)
    IN  [k \in 1..Len(chosen) |-> chosen[k].name]

\* the notification being processed bears an event type some handler
\* declares
Declared ==
    /\ disp.pc # "idle"
    /\ "event_type" \in DOMAIN disp.notification
    /\ disp.notification["event_type"] \in DeclaredEventTypes

\* C18: for a notification whose event_type some handler declares,
\* process_notification is invoked on the handlers whose own declared event
\* types hold it, and on no other, one after another in registration order;
\* when a handler raises, the error propagates at once and no later handler
\* is invoked for that notification.
C18_DispatchSequence ==
    /\ [](Declared =>
            LET event_type == disp.notification["event_type"]
                interested == InterestedAmong(Len(handlers), event_type)
            IN  /\ IsPrefix(disp.invoked, interested)
                /\ disp.pc = "loop" =>
                        disp.invoked = InterestedAmong(disp.k - 1, event_type)
                /\ (disp.pc = "done" /\ disp.error = "none") =>
                        disp.invoked = interested
                /\ disp.error # "none" =>
                        /\ disp.pc = "done"
                        /\ disp.error = "HandlerError"
                        /\ disp.invoked # << >>)
    /\ [][(disp.pc = "done" /\ disp' # disp) => disp' = NoDispatch]_vars

\* two handlers have been invoked for one notification, in registration
\* order
C18_Witness ==
    /\ Declared
    /\ disp.pc = "done"
    /\ disp.error = "none"
    /\ Len(disp.invoked) = 2
    /\ disp.invoked = <<handlers[1].name, handlers[2].name>>

\* the mapping holds, for every Domain in Storage and for nothing else, the
\* result of a zone sync with the Domain, its Records and the Servers
MapsEveryDomain(results) ==
    /\ DOMAIN results = {d.id : d \in domains}
    /\ \A d \in domains :
        results[d.id] = [domain |-> d,
                         records |-> {r \in records : r.domain_id = d.id},
                         servers |-> servers]

\* C19, as stated: a sync_all that PolicyGate grants runs to completion and
\* returns a mapping whose keys are the ids of all Domains in Storage, of
\* every tenant, each value the result of one zone sync with that Domain,
\* its Records and the Servers.
C19_SyncAllReturnsAll ==
    \A f \in Done("sync_all") :
        Granted(f, "diagnostics_sync_all") =>
            /\ f.result = "ok"
            /\ MapsEveryDomain(f.ret.results)

\* C19, amended: a sync_all that PolicyGate grants comes to its end; unless
\* a Backend.sync_domain raises, it returns a mapping whose keys are the ids
\* of all Domains in Storage, of every tenant, each value the result of the
\* one zone sync made with that Domain, its Records and the Servers; when a
\* Backend.sync_domain raises, the error is surfaced and the Domains left
\* are not synced; it writes nothing to Storage.
C19_SyncAllUnlessBackendRaises ==
    /\ [](\A f \in Done("sync_all") :
            /\ f.result \in {"ok", "Forbidden", "BackendError"}
            /\ f.result = "Forbidden" <=> ~Granted(f, "diagnostics_sync_all")
            /\ f.result = "ok" =>
                /\ MapsEveryDomain(f.ret.results)
                /\ Len(f.effects) = Cardinality(domains)
                /\ f.todo = << >>
            /\ f.result = "BackendError" =>
                /\ f.ret = NoRet
                /\ f.todo # << >>
                /\ Len(f.effects) + Len(f.todo) = Cardinality(domains))
    /\ [][\A w \in AllWorkers :
            (call'[w] # call[w] /\ call'[w].op = "sync_all")
            => UNCHANGED storageVars]_vars
    /\ \A w \in AllWorkers :
            (call[w].op = "sync_all")
                ~> (call[w].op = "sync_all" /\ call[w].pc = "done")

\* sync_all has returned the mapping of the Domains of two tenants, one of
\* them with a Record
C19_Witness ==
    \E f \in Done("sync_all") :
        /\ f.result = "ok"
        /\ \E d \in domains : \E e \in domains : d.tenant_id # e.tenant_id
        /\ \E k \in DOMAIN f.ret.results : f.ret.results[k].records # {}

\* C20: the Backend is never handed a Domain and a Record of another
\* Domain, by any record operation, sync_record among them: sync_record
\* that PolicyGate grants, addressed by a stored Domain and a stored Record
\* of another Domain, fails with RecordNotFound and calls no
\* Backend.sync_record.
C20_BackendPairMatches ==
    \A op \in {"create_record", "update_record", "delete_record",
               "sync_record"} :
        \A f \in Running(op) :
            /\ (\E k \in DOMAIN f.effects : f.effects[k] = "backend." \o op)
                    => f.record.domain_id = f.domain.id
            /\ (/\ op = "sync_record" /\ f.pc = "done"
                /\ Granted(f, "diagnostics_sync_record")
                /\ Mismatched(f))
                    => /\ f.result = "RecordNotFound"
                       /\ f.effects = << >>

\* the errors of validation
ValidationErrors == {"Forbidden", "BadRequest", "NoServersConfigured"}

\* the operations that write to Storage or change the Backend
WriteOps ==
    {"create_server", "delete_server",
     "create_tsigkey", "update_tsigkey", "delete_tsigkey",
     "create_domain", "update_domain", "delete_domain",
     "create_record", "update_record", "delete_record"}

\* the checks of the operation of frame f have all succeeded: policy for
\* every operation; blacklist, ancestor's tenant and server count for
\* create_domain; transfer rules and name for update_domain; containment
\* for create_record and update_record
ChecksPassed(f) ==
    /\ Granted(f, f.op)
    /\ f.op = "create_domain" =>
        /\ Truthy(IsBlacklistedDomainName(f.values["name"]))
                => Granted(f, "use_blacklisted_domain")
        /\ \A d \in NearestAncestors(f.values["name"]) :
                d.tenant_id = f.values["tenant_id"]
        /\ servers # {}
    /\ f.op = "update_domain" =>
        /\ "tenant_id" \in DOMAIN f.values
                => Granted(f, "delete_domain") /\ Granted(f, "create_domain")
        /\ "name" \in DOMAIN f.values => f.values["name"] = f.domain.name
    /\ f.op \in {"create_record", "update_record"} =>
        ("name" \in DOMAIN f.values
                => IsSuffix(f.domain.name, f.values["name"]))

C21_NoCrossTenantSubdomain ==
    \A d \in domains : \A e \in domains :
        d.name \in AncestorNames(e.name) => d.tenant_id = e.tenant_id

\* the names of the queues declared for the subscriptions of the handler
\* called name
QueuesOf(name) ==
    UNION {{QueueName(handlers[h], handlers[h].exchange,
                      handlers[h].topics[t]) :
                t \in 1..Len(handlers[h].topics)} :
            h \in {k \in 1..Len(handlers) : handlers[k].name = name}}

\* the calls of the callback so far, the one under way included: the
\* delivery each was made with and the handlers it has invoked
CallbackRuns ==
    {bus.processed[k] : k \in 1..Len(bus.processed)}
        \cup (IF bus.current = NoDelivery THEN {}
              ELSE {[delivery |-> bus.current, invoked |-> disp.invoked]})

\* how many times the handler called name has processed the notification
\* published as number id
TimesProcessed(name, id) ==
    Cardinality(UNION {
        {<<r.delivery.queue_name, j>> :
            j \in {k \in 1..Len(r.invoked) : r.invoked[k] = name}} :
        r \in {c \in CallbackRuns : c.delivery.id = id}})

\* C22: a handler's process_notification is invoked only for a delivery
\* that arrived on a queue declared for one of that handler's own
\* subscriptions, and with several handlers or several topics subscribed a
\* published notification is processed at most once by each handler.
C22_OwnQueueAtMostOnce ==
    /\ \A r \in CallbackRuns : \A k \in 1..Len(r.invoked) :
            r.delivery.queue_name \in QueuesOf(r.invoked[k])
    /\ \A id \in 1..bus.published : \A h \in 1..Len(handlers) :
            TimesProcessed(handlers[h].name, id) <= 1

\* the workers running delete_domain on Domain id that have done what
\* (a call of a collaborator, as the frame logs it)
DeletersDone(id, what) ==
    {w \in AllWorkers :
        /\ call[w].op = "delete_domain"
        /\ call[w].domain_id = id
        /\ \E k \in 1..Len(call[w].effects) : call[w].effects[k] = what}

\* C23: of concurrent delete_domain calls on the same Domain, in every
\* interleaving, at most one has invoked Backend.delete_domain and at most
\* one has emitted domain.delete, and a call that has emitted domain.delete
\* ends with its Storage delete done.
C23_ConcurrentDeleteOnce ==
    \A id \in 1..MaxRows :
        /\ Cardinality(DeletersDone(id, "backend.delete_domain")) <= 1
        /\ Cardinality(DeletersDone(id, "notify.domain.delete")) <= 1
        /\ \A w \in DeletersDone(id, "notify.domain.delete") :
                call[w].pc = "done" => call[w].result = "ok"

=============================================================================
